---- MODULE Spec2Model ----
(***************************************************************************)
(* A model of the OLSR simulation: the topology oracle (link.go), the node *)
(* protocol engine (node.go) and the controller fabric (controller.go).    *)
(*                                                                         *)
(* Go maps are functions whose DOMAIN is the key set.  Slices whose order  *)
(* the program never inspects (the HELLO lists) are sets.                  *)
(***************************************************************************)
EXTENDS Integers, Sequences, FiniteSets, TLC

\* ------------------------------------------------------------------------
\* Generic helpers for Go maps
\* ------------------------------------------------------------------------
\* The nil pointer.
Nil == [nil |-> TRUE]

EmptyMap == << >>

MapPut(m, k, v) == [x \in (DOMAIN m) \cup {k} |-> IF x = k THEN v ELSE m[x]]

MapDel(m, ks) == [x \in (DOMAIN m) \ ks |-> m[x]]

\* ------------------------------------------------------------------------
\* Topology oracle (link.go)
\* ------------------------------------------------------------------------
UP == "UP"

DOWN == "DOWN"

\* A parsed line of the topology file.
LinkState(time, status, fromNode, toNode) ==
    [time |-> time, status |-> status, fromNode |-> fromNode, toNode |-> toNode]

RECURSIVE isUpLoop(_, _, _, _)
isUpLoop(states, i, time, up) ==
    IF i > Len(states) THEN up
    ELSE IF time >= states[i].time /\ states[i].status = UP
         THEN isUpLoop(states, i + 1, time, TRUE)
    ELSE IF time >= states[i].time /\ states[i].status = DOWN
         THEN isUpLoop(states, i + 1, time, FALSE)
    ELSE isUpLoop(states, i + 1, time, up)

RECURSIVE isUpLoopExclusive(_, _, _, _)
isUpLoopExclusive(states, i, time, up) ==
    IF i > Len(states) THEN up
    ELSE IF time > states[i].time /\ states[i].status = UP
         THEN isUpLoopExclusive(states, i + 1, time, TRUE)
    ELSE IF time > states[i].time /\ states[i].status = DOWN
         THEN isUpLoopExclusive(states, i + 1, time, FALSE)
    ELSE isUpLoopExclusive(states, i + 1, time, up)

\* A link that takes a record into account only after its tick.
isUpExclusive(l, time) == isUpLoopExclusive(l.states, 1, time, FALSE)

\* Link.isUp
isUp(l, time) == isUpLoop(l.states, 1, time, FALSE)

NewLink(ls) == [fromNode |-> ls.fromNode, toNode |-> ls.toNode, states |-> <<ls>>]

\* The body of the read loop of NewNetworkTypology after the tick check:
\* add the record to its link, creating the link when there is none.
AddLinkState(links, ls) ==
    IF ls.fromNode \notin DOMAIN links
    THEN MapPut(links, ls.fromNode, MapPut(EmptyMap, ls.toNode, NewLink(ls)))
    ELSE LET dsts == links[ls.fromNode] IN
         IF ls.toNode \notin DOMAIN dsts
         THEN MapPut(links, ls.fromNode, MapPut(dsts, ls.toNode, NewLink(ls)))
         ELSE LET dst == dsts[ls.toNode] IN
              MapPut(links, ls.fromNode,
                     MapPut(dsts, ls.toNode,
                            [dst EXCEPT !.states = Append(@, ls)]))

RECURSIVE ReadLoop(_, _, _, _)
ReadLoop(in, i, currTime, links) ==
    IF i > Len(in) THEN [n |-> [links |-> links], err |-> FALSE]
    ELSE IF in[i].time < currTime THEN [n |-> Nil, err |-> TRUE]
    ELSE ReadLoop(in, i + 1, in[i].time, AddLinkState(links, in[i]))

RECURSIVE ReadLoopStrict(_, _, _, _)
ReadLoopStrict(in, i, currTime, links) ==
    IF i > Len(in) THEN [n |-> [links |-> links], err |-> FALSE]
    ELSE IF in[i].time <= currTime /\ i > 1 THEN [n |-> Nil, err |-> TRUE]
    ELSE ReadLoopStrict(in, i + 1, in[i].time, AddLinkState(links, in[i]))

\* A constructor that insists on strictly increasing ticks.
NewNetworkTypologyStrict(in) == ReadLoopStrict(in, 1, 0, EmptyMap)

\* NewNetworkTypology: the pair (topology, error) it returns.
NewNetworkTypology(in) == ReadLoop(in, 1, 0, EmptyMap)

QueryMsg(fromNode, toNode, timeQuantum) ==
    [fromNode |-> fromNode, toNode |-> toNode, timeQuantum |-> timeQuantum]

\* A query that falls back on the reverse link when the pair is unknown.
QuerySymmetric(n, msg) ==
    IF msg.fromNode \in DOMAIN n.links /\ msg.toNode \in DOMAIN n.links[msg.fromNode]
    THEN isUp(n.links[msg.fromNode][msg.toNode], msg.timeQuantum)
    ELSE IF msg.toNode \in DOMAIN n.links /\ msg.fromNode \in DOMAIN n.links[msg.toNode]
    THEN isUp(n.links[msg.toNode][msg.fromNode], msg.timeQuantum)
    ELSE FALSE

\* NetworkTypology.Query
Query(n, msg) ==
    IF msg.fromNode \notin DOMAIN n.links THEN FALSE
    ELSE LET links == n.links[msg.fromNode] IN
         IF msg.toNode \notin DOMAIN links THEN FALSE
         ELSE isUp(links[msg.toNode], msg.timeQuantum)

\* ------------------------------------------------------------------------
\* Messages (message.go)
\* ------------------------------------------------------------------------
HelloMessage(src, unidir, bidir, mpr, seq) ==
    [type |-> "HELLO", src |-> src, unidir |-> unidir, bidir |-> bidir, mpr |-> mpr, seq |-> seq]

DataMessage(src, dst, nxtHop, fromnbr, data) ==
    [type |-> "DATA", src |-> src, dst |-> dst, nxtHop |-> nxtHop, fromnbr |-> fromnbr, data |-> data]

TCMessage(src, fromnbr, seq, ms) ==
    [type |-> "TC", src |-> src, fromnbr |-> fromnbr, seq |-> seq, ms |-> ms]

\* ------------------------------------------------------------------------
\* Node engine (node.go)
\* ------------------------------------------------------------------------
Bidirectional == 0

Unidirectional == 1

MPR == 2

HelloPeriod == 5

TCPeriod == 10

DataRetry == 30

NeighborHoldTime == 15

TopologyHoldTime == 30

MaxHops == 256

TopologyEntry(dst, originator, holdUntil, seq) ==
    [dst |-> dst, originator |-> originator, holdUntil |-> holdUntil, seq |-> seq]

RoutingEntry(dst, nextHop, distance) ==
    [dst |-> dst, nextHop |-> nextHop, distance |-> distance]

OneHopNeighborEntry(neighborID, state, holdUntil) ==
    [neighborID |-> neighborID, state |-> state, holdUntil |-> holdUntil]

NodeMsg(msg, delay, dst, sent) ==
    [msg |-> msg, delay |-> delay, dst |-> dst, sent |-> sent]

\* The logs are modelled by the number of lines written to them.
NewNode(id, nodeMsg) ==
    [id               |-> id,
     nodeMsg          |-> nodeMsg,
     inputLog         |-> 0,
     outputLog        |-> 0,
     receivedLog      |-> 0,
     helloSequences   |-> EmptyMap,
     helloSequenceNum |-> 0,
     routingTable     |-> EmptyMap,
     routesChanged    |-> TRUE,
     topologyTable    |-> EmptyMap,
     topologyHoldTime |-> TopologyHoldTime,
     tcSequenceNum    |-> 0,
     oneHopNeighbors  |-> EmptyMap,
     twoHopNeighbors  |-> EmptyMap,
     msSet            |-> {},
     neighborHoldTime |-> NeighborHoldTime,
     currentTick      |-> 0,
     panicked         |-> FALSE]

\* The iteration orders a range over a map with key set S can take.
Orders(S) ==
    {o \in [1..Cardinality(S) -> S] : \A i, j \in 1..Cardinality(S) : i # j => o[i] # o[j]}

\* The elements of a set of IDs in ascending order (sort.SliceStable with <).
RECURSIVE SortedSeq(_)
SortedSeq(S) ==
    IF S = {} THEN << >>
    ELSE LET m == CHOOSE x \in S : \A y \in S : x <= y IN <<m>> \o SortedSeq(S \ {m})

Range(q) == {q[i] : i \in 1..Len(q)}

\* updateOneHopNeighbors taking the state of a first-time neighbor from the
\* lists of the HELLO too.
updateOneHopNeighborsByLists(msg, oneHopNeighbors, holdUntil, id) ==
    LET included == id \in (msg.unidir \cup msg.bidir \cup msg.mpr) IN
    MapPut(oneHopNeighbors, msg.src,
           OneHopNeighborEntry(msg.src,
                               IF included THEN Bidirectional ELSE Unidirectional,
                               holdUntil))

\* updateOneHopNeighbors
updateOneHopNeighbors(msg, oneHopNeighbors, holdUntil, id) ==
    IF msg.src \notin DOMAIN oneHopNeighbors
    THEN MapPut(oneHopNeighbors, msg.src, OneHopNeighborEntry(msg.src, Unidirectional, holdUntil))
    ELSE LET entry == oneHopNeighbors[msg.src]
             included == id \in (msg.unidir \cup msg.bidir \cup msg.mpr)
         IN MapPut(oneHopNeighbors, msg.src,
                   [entry EXCEPT !.holdUntil = holdUntil,
                                 !.state = IF included THEN Bidirectional ELSE Unidirectional])

\* updateTwoHopNeighbors without the check for the node's own id.
updateTwoHopNeighborsKeepOwn(msg, twoHopNeighbors, id) ==
    MapPut(twoHopNeighbors, msg.src, msg.bidir \cup msg.mpr)

\* updateTwoHopNeighbors
updateTwoHopNeighbors(msg, twoHopNeighbors, id) ==
    MapPut(twoHopNeighbors, msg.src, (msg.bidir \cup msg.mpr) \ {id})

\* The state calculateMPRs reads for a key of the two-hop table: the zero
\* value, Bidirectional, when the one-hop table has no such key.
StateOf(oneHopNeighbors, neighbor) ==
    IF neighbor \in DOMAIN oneHopNeighbors THEN oneHopNeighbors[neighbor].state ELSE Bidirectional

\* The candidates with the Unidirectional neighbors among them.
CandidatesAll(oneHopNeighbors, twoHopNeighbors, order) ==
    [i \in 1..Len(order) |->
        [id |-> order[i], reaches |-> Cardinality(twoHopNeighbors[order[i]])]]

\* The candidates in the order the range over the two-hop table visits them.
Candidates(oneHopNeighbors, twoHopNeighbors, order) ==
    LET keep(k) == StateOf(oneHopNeighbors, k) # Unidirectional IN
    [i \in 1..Len(SelectSeq(order, keep)) |->
        [id |-> SelectSeq(order, keep)[i],
         reaches |-> Cardinality(twoHopNeighbors[SelectSeq(order, keep)[i]])]]

\* sort.SliceStable(nodes, reaches descending): insert each element behind
\* every element that reaches at least as many.
RECURSIVE StableInsert(_, _)
StableInsert(sorted, x) ==
    IF sorted = << >> THEN <<x>>
    ELSE IF Head(sorted).reaches >= x.reaches
         THEN <<Head(sorted)>> \o StableInsert(Tail(sorted), x)
         ELSE <<x>> \o sorted

RECURSIVE SortByReaches(_, _)
SortByReaches(nodes, i) ==
    IF i = 0 THEN << >> ELSE StableInsert(SortByReaches(nodes, i - 1), nodes[i])

\* A selection that takes the first candidate only.
SelectLoopOnce(nodes, remainingTwoHops, mprs, twoHopNeighbors) ==
    IF remainingTwoHops = {} THEN [mprs |-> mprs, panicked |-> FALSE]
    ELSE IF nodes = << >> THEN [mprs |-> mprs, panicked |-> TRUE]
    ELSE [mprs |-> mprs \cup {Head(nodes).id}, panicked |-> FALSE]

\* The selection loop: pop candidates until nothing remains uncovered.  The
\* index into an empty slice panics.
RECURSIVE SelectLoop(_, _, _, _)
SelectLoop(nodes, remainingTwoHops, mprs, twoHopNeighbors) ==
    IF remainingTwoHops = {} THEN [mprs |-> mprs, panicked |-> FALSE]
    ELSE IF nodes = << >> THEN [mprs |-> mprs, panicked |-> TRUE]
    ELSE SelectLoop(Tail(nodes),
                    remainingTwoHops \ twoHopNeighbors[Head(nodes).id],
                    mprs \cup {Head(nodes).id},
                    twoHopNeighbors)

\* A selection that stops after the candidate reaching most.
SelectMPRsFirstOnly(oneHopNeighbors, twoHopNeighbors, order) ==
    LET nodes == Candidates(oneHopNeighbors, twoHopNeighbors, order)
        remaining == UNION {twoHopNeighbors[nodes[i].id] : i \in 1..Len(nodes)}
    IN SelectLoopOnce(SortByReaches(nodes, Len(nodes)), remaining, {}, twoHopNeighbors)

\* A selection whose uncovered set holds the two-hop sets of every slot,
\* those of the Unidirectional neighbors included.
SelectMPRsAllSlots(oneHopNeighbors, twoHopNeighbors, order) ==
    LET nodes == Candidates(oneHopNeighbors, twoHopNeighbors, order)
        remaining == UNION {twoHopNeighbors[order[i]] : i \in 1..Len(order)}
    IN SelectLoop(SortByReaches(nodes, Len(nodes)), remaining, {}, twoHopNeighbors)

\* A selection that pops every candidate, whatever is left uncovered.
SelectMPRsEveryCandidate(oneHopNeighbors, twoHopNeighbors, order) ==
    LET nodes == Candidates(oneHopNeighbors, twoHopNeighbors, order)
    IN [mprs |-> {nodes[i].id : i \in 1..Len(nodes)}, panicked |-> FALSE]

\* The selection of calculateMPRs: candidates, stable sort, selection loop.
SelectMPRs(oneHopNeighbors, twoHopNeighbors, order) ==
    LET nodes == Candidates(oneHopNeighbors, twoHopNeighbors, order)
        remaining == UNION {twoHopNeighbors[nodes[i].id] : i \in 1..Len(nodes)}
    IN SelectLoop(SortByReaches(nodes, Len(nodes)), remaining, {}, twoHopNeighbors)

\* calculateMPRs without the demotion of the neighbors no longer selected.
calculateMPRsKeepOld(oneHopNeighbors, twoHopNeighbors, order) ==
    LET sel == SelectMPRs(oneHopNeighbors, twoHopNeighbors, order) IN
    [oneHopNeighbors |->
        [id \in DOMAIN oneHopNeighbors |->
            IF id \in sel.mprs
            THEN [oneHopNeighbors[id] EXCEPT !.state = MPR]
            ELSE oneHopNeighbors[id]],
     panicked |-> sel.panicked]

\* calculateMPRs; order is the iteration order of the two-hop table.
calculateMPRs(oneHopNeighbors, twoHopNeighbors, order) ==
    LET sel == SelectMPRs(oneHopNeighbors, twoHopNeighbors, order) IN
    [oneHopNeighbors |->
        [id \in DOMAIN oneHopNeighbors |->
            IF id \in sel.mprs
            THEN [oneHopNeighbors[id] EXCEPT !.state = MPR]
            ELSE IF oneHopNeighbors[id].state = MPR
                 THEN [oneHopNeighbors[id] EXCEPT !.state = Bidirectional]
                 ELSE oneHopNeighbors[id]],
     panicked |-> sel.panicked]

\* The part of handleHello behind the filter, never deleting from msSet.
acceptHelloKeepMS(n, msg, order) ==
    LET oneHop == updateOneHopNeighbors(msg, n.oneHopNeighbors,
                                        n.currentTick + n.neighborHoldTime, n.id)
        twoHop == updateTwoHopNeighbors(msg, n.twoHopNeighbors, n.id)
        calc   == calculateMPRs(oneHop, twoHop, order)
        isMS   == n.id \in msg.mpr
    IN [n EXCEPT !.helloSequences = MapPut(@, msg.src, msg.seq),
                 !.oneHopNeighbors = calc.oneHopNeighbors,
                 !.twoHopNeighbors = twoHop,
                 !.panicked = calc.panicked,
                 !.msSet = IF isMS THEN @ \cup {msg.src} ELSE @,
                 !.routesChanged = TRUE]

\* The part of handleHello behind the out-of-order filter.
acceptHello(n, msg, order) ==
    LET oneHop == updateOneHopNeighbors(msg, n.oneHopNeighbors,
                                        n.currentTick + n.neighborHoldTime, n.id)
        twoHop == updateTwoHopNeighbors(msg, n.twoHopNeighbors, n.id)
        calc   == calculateMPRs(oneHop, twoHop, order)
        isMS   == n.id \in msg.mpr
    IN [n EXCEPT !.helloSequences = MapPut(@, msg.src, msg.seq),
                 !.oneHopNeighbors = calc.oneHopNeighbors,
                 !.twoHopNeighbors = twoHop,
                 !.panicked = calc.panicked,
                 !.msSet = IF isMS THEN @ \cup {msg.src} ELSE @ \ {msg.src},
                 !.routesChanged = TRUE]

\* handleHello without the out-of-order filter.
handleHelloUnfiltered(n, msg, order) == acceptHello(n, msg, order)

\* Node.handleHello; order is the iteration order calculateMPRs meets.
handleHello(n, msg, order) ==
    IF msg.src \in DOMAIN n.helloSequences /\ msg.seq <= n.helloSequences[msg.src]
    THEN n
    ELSE acceptHello(n, msg, order)

\* sendData with the destination itself as next hop.
sendDataDirect(n, msg) ==
    IF msg.dst \in DOMAIN n.routingTable
    THEN [node |-> [n EXCEPT !.inputLog = @ + 1],
          ok   |-> TRUE,
          msg  |-> [msg EXCEPT !.fromnbr = n.id, !.nxtHop = msg.dst]]
    ELSE [node |-> n, ok |-> FALSE, msg |-> msg]

\* Node.sendData: the node after the call, whether the message was sent, and
\* the message as transmitted.  The line goes to the input log.
sendData(n, msg) ==
    IF msg.dst \in DOMAIN n.routingTable
    THEN [node |-> [n EXCEPT !.inputLog = @ + 1],
          ok   |-> TRUE,
          msg  |-> [msg EXCEPT !.fromnbr = n.id,
                               !.nxtHop = n.routingTable[msg.dst].nextHop]]
    ELSE [node |-> n, ok |-> FALSE, msg |-> msg]

\* handleData without the check for the node's own id.
handleDataAlwaysForward(n, msg) == sendData(n, msg)

\* Node.handleData
handleData(n, msg) ==
    IF msg.dst = n.id
    THEN [node |-> [n EXCEPT !.receivedLog = @ + 1], ok |-> FALSE, msg |-> msg]
    ELSE sendData(n, msg)

\* The staleness check of updateTopologyTable: some listed destination has
\* an entry of the originator with a greater sequence number.
IsStaleTC(msg, topologyTable) ==
    /\ msg.src \in DOMAIN topologyTable
    /\ \E i \in 1..Len(msg.ms) :
          /\ msg.ms[i] \in DOMAIN topologyTable[msg.src]
          /\ topologyTable[msg.src][msg.ms[i]].seq > msg.seq

\* updateTopologyTable storing the node's own id as a destination too.
updateTopologyTableKeepOwn(msg, topologyTable, holdUntil, id) ==
    IF IsStaleTC(msg, topologyTable) THEN topologyTable
    ELSE MapPut(topologyTable, msg.src,
                [dst \in Range(msg.ms) |->
                    TopologyEntry(dst, msg.src, holdUntil, msg.seq)])

\* updateTopologyTable adding the listed destinations to the stored ones.
updateTopologyTableMerge(msg, topologyTable, holdUntil, id) ==
    IF IsStaleTC(msg, topologyTable) THEN topologyTable
    ELSE LET old == IF msg.src \in DOMAIN topologyTable THEN topologyTable[msg.src] ELSE EmptyMap IN
         MapPut(topologyTable, msg.src,
                [dst \in DOMAIN old \cup (Range(msg.ms) \ {id}) |->
                    IF dst \in Range(msg.ms)
                    THEN TopologyEntry(dst, msg.src, holdUntil, msg.seq)
                    ELSE old[dst]])

\* updateTopologyTable
updateTopologyTable(msg, topologyTable, holdUntil, id) ==
    IF IsStaleTC(msg, topologyTable) THEN topologyTable
    ELSE MapPut(topologyTable, msg.src,
                [dst \in Range(msg.ms) \ {id} |->
                    TopologyEntry(dst, msg.src, holdUntil, msg.seq)])

\* handleTC forwarding every TC of another node, whoever transmitted it.
handleTCAlwaysForward(n, msg) ==
    IF msg.src = n.id THEN [node |-> n, ok |-> FALSE, msg |-> msg]
    ELSE LET n1 == [n EXCEPT !.topologyTable =
                                 updateTopologyTable(msg, @, n.currentTick + n.topologyHoldTime, n.id),
                             !.routesChanged = TRUE]
         IN [node |-> [n1 EXCEPT !.outputLog = @ + 1],
             ok   |-> TRUE,
             msg  |-> [msg EXCEPT !.fromnbr = n.id]]

\* handleTC stamping a forwarded TC with the forwarder as its originator too.
handleTCOwnOrigin(n, msg) ==
    IF msg.src = n.id THEN [node |-> n, ok |-> FALSE, msg |-> msg]
    ELSE LET n1 == [n EXCEPT !.topologyTable =
                                 updateTopologyTable(msg, @, n.currentTick + n.topologyHoldTime, n.id),
                             !.routesChanged = TRUE]
         IN IF msg.fromnbr \in n.msSet
            THEN [node |-> [n1 EXCEPT !.outputLog = @ + 1],
                  ok   |-> TRUE,
                  msg  |-> [msg EXCEPT !.fromnbr = n.id, !.src = n.id]]
            ELSE [node |-> n1, ok |-> FALSE, msg |-> msg]

\* Node.handleTC: the node after the call, whether the message was
\* forwarded, and the message as transmitted.
handleTC(n, msg) ==
    IF msg.src = n.id THEN [node |-> n, ok |-> FALSE, msg |-> msg]
    ELSE LET n1 == [n EXCEPT !.topologyTable =
                                 updateTopologyTable(msg, @, n.currentTick + n.topologyHoldTime, n.id),
                             !.routesChanged = TRUE]
         IN IF msg.fromnbr \in n.msSet
            THEN [node |-> [n1 EXCEPT !.outputLog = @ + 1],
                  ok   |-> TRUE,
                  msg  |-> [msg EXCEPT !.fromnbr = n.id]]
            ELSE [node |-> n1, ok |-> FALSE, msg |-> msg]

\* Node.handler: dispatch on the message type.
handler(n, msg, order) ==
    CASE msg.type = "HELLO" -> [node |-> handleHello(n, msg, order), ok |-> FALSE, msg |-> msg]
      [] msg.type = "DATA"  -> handleData(n, msg)
      [] msg.type = "TC"    -> handleTC(n, msg)

NeighborsIn(n, state) == {k \in DOMAIN n.oneHopNeighbors : n.oneHopNeighbors[k].state = state}

NeighborIDsIn(n, state) == {n.oneHopNeighbors[k].neighborID : k \in NeighborsIn(n, state)}

\* sendHello with the MPR neighbors listed as bidirectional as well.
sendHelloMPRTwice(n) ==
    [node |-> [n EXCEPT !.helloSequenceNum = @ + 1, !.outputLog = @ + 1],
     msg  |-> HelloMessage(n.id,
                           NeighborIDsIn(n, Unidirectional),
                           NeighborIDsIn(n, Bidirectional) \cup NeighborIDsIn(n, MPR),
                           NeighborIDsIn(n, MPR),
                           n.helloSequenceNum)]

\* Node.sendHello
sendHello(n) ==
    [node |-> [n EXCEPT !.helloSequenceNum = @ + 1, !.outputLog = @ + 1],
     msg  |-> HelloMessage(n.id,
                           NeighborIDsIn(n, Unidirectional),
                           NeighborIDsIn(n, Bidirectional),
                           NeighborIDsIn(n, MPR),
                           n.helloSequenceNum)]

\* sendTC with the MS list in descending order.
sendTCDescending(n) ==
    LET q == SortedSeq(n.msSet) IN
    [node |-> [n EXCEPT !.tcSequenceNum = @ + 1, !.outputLog = @ + 1],
     msg  |-> TCMessage(n.id, n.id, n.tcSequenceNum, [i \in 1..Len(q) |-> q[Len(q) + 1 - i]])]

\* Node.sendTC
sendTC(n) ==
    [node |-> [n EXCEPT !.tcSequenceNum = @ + 1, !.outputLog = @ + 1],
     msg  |-> TCMessage(n.id, n.id, n.tcSequenceNum, SortedSeq(n.msSet))]

\* The DATA origination step without the mark that the message is sent.
originateDataUnmarked(n) ==
    LET r == sendData(n, DataMessage(n.id, n.nodeMsg.dst, 0, 0, n.nodeMsg.msg)) IN
    IF r.ok
    THEN r
    ELSE [r EXCEPT !.node.nodeMsg.delay = @ + DataRetry]

\* The DATA origination step of Node.run.
originateData(n) ==
    LET r == sendData(n, DataMessage(n.id, n.nodeMsg.dst, 0, 0, n.nodeMsg.msg)) IN
    IF r.ok
    THEN [r EXCEPT !.node.nodeMsg.sent = TRUE]
    ELSE [r EXCEPT !.node.nodeMsg.delay = @ + DataRetry]

\* An expiry sweep that keeps an entry through the tick of its holdUntil.
sweepLate(n) ==
    LET old == {k \in DOMAIN n.oneHopNeighbors : n.oneHopNeighbors[k].holdUntil < n.currentTick} IN
    [n EXCEPT !.oneHopNeighbors = MapDel(@, old),
              !.twoHopNeighbors = MapDel(@, old),
              !.topologyTable =
                  [o \in DOMAIN @ |->
                      MapDel(@[o], {k \in DOMAIN @[o] : @[o][k].holdUntil < n.currentTick})]]

\* An expiry sweep that leaves the two-hop slot of an expired neighbor.
sweepOneHopOnly(n) ==
    LET old == {k \in DOMAIN n.oneHopNeighbors : n.oneHopNeighbors[k].holdUntil <= n.currentTick} IN
    [n EXCEPT !.oneHopNeighbors = MapDel(@, old),
              !.topologyTable =
                  [o \in DOMAIN @ |->
                      MapDel(@[o], {k \in DOMAIN @[o] : @[o][k].holdUntil <= n.currentTick})]]

\* The expiry sweep of Node.run.
sweep(n) ==
    LET old == {k \in DOMAIN n.oneHopNeighbors : n.oneHopNeighbors[k].holdUntil <= n.currentTick} IN
    [n EXCEPT !.oneHopNeighbors = MapDel(@, old),
              !.twoHopNeighbors = MapDel(@, old),
              !.topologyTable =
                  [o \in DOMAIN @ |->
                      MapDel(@[o], {k \in DOMAIN @[o] : @[o][k].holdUntil <= n.currentTick})]]

\* The first loop of calculateRoutingTable: the symmetric one-hop neighbors.
OneHopRoutes(oneHopNeighbors) ==
    LET sym == {k \in DOMAIN oneHopNeighbors :
                   oneHopNeighbors[k].state \in {Bidirectional, MPR}} IN
    [d \in {oneHopNeighbors[k].neighborID : k \in sym} |-> RoutingEntry(d, d, 1)]

\* The second loop: the two-hop table ranged over in the given order.
RECURSIVE TwoHopRoutes(_, _, _, _)
TwoHopRoutes(rt, twoHopNeighbors, order, i) ==
    IF i > Len(order) THEN rt
    ELSE LET neighbor == order[i]
             new == twoHopNeighbors[neighbor] \ DOMAIN rt
         IN TwoHopRoutes([d \in DOMAIN rt \cup new |->
                             IF d \in new THEN RoutingEntry(d, neighbor, 2) ELSE rt[d]],
                         twoHopNeighbors, order, i + 1)

\* One pass of the third loop for hop count h over the topology table.
RECURSIVE TopologyPass(_, _, _, _, _)
TopologyPass(rt, topologyTable, order, i, h) ==
    IF i > Len(order) THEN rt
    ELSE LET o == order[i]
             new == IF o \in DOMAIN rt /\ rt[o].distance = h
                    THEN {topologyTable[o][k].dst : k \in DOMAIN topologyTable[o]} \ DOMAIN rt
                    ELSE {}
         IN TopologyPass([d \in DOMAIN rt \cup new |->
                             IF d \in new THEN RoutingEntry(d, rt[o].nextHop, h + 1) ELSE rt[d]],
                         topologyTable, order, i + 1, h)

RECURSIVE TopologyRoutes(_, _, _, _)
TopologyRoutes(rt, topologyTable, order, h) ==
    IF h >= MaxHops THEN rt
    ELSE LET next == TopologyPass(rt, topologyTable, order, 1, h) IN
         IF next = rt THEN rt ELSE TopologyRoutes(next, topologyTable, order, h + 1)

\* Node.calculateRoutingTable; the orders are those of the ranges over the
\* two-hop table and over the topology table.
calculateRoutingTable(n, twoHopOrder, topologyOrder) ==
    [n EXCEPT !.routingTable =
        TopologyRoutes(TwoHopRoutes(OneHopRoutes(n.oneHopNeighbors),
                                    n.twoHopNeighbors, twoHopOrder, 1),
                       n.topologyTable, topologyOrder, 2)]

\* The end of a tick of Node.run: sweep, routing recalculation, tick count.
endTick(n, twoHopOrder, topologyOrder) ==
    LET n1 == sweep(n)
        n2 == IF n1.routesChanged
              THEN [calculateRoutingTable(n1, twoHopOrder, topologyOrder)
                       EXCEPT !.routesChanged = FALSE]
              ELSE n1
    IN [n2 EXCEPT !.currentTick = @ + 1]

\* ------------------------------------------------------------------------
\* State
\* ------------------------------------------------------------------------
VARIABLES
    input,      \* the parsed records of the topology file
    topology,   \* Controller.topology, Nil before construction
    loadErr,    \* the error NewNetworkTypology returned
    query,      \* the last Query call and its result, Nil when none
    nodes,      \* the running nodes, by id
    pc,         \* the position of each node in Node.run
    cur,        \* the message a node took from its input and has yet to handle
    heap,       \* the messages in flight, by address
    helpers,    \* the goroutines the router started, in the order of the dequeues
    now,        \* the controller's tick: time since the epoch / tickDuration
    cancelled,  \* the context is cancelled
    handled     \* per node: the node before the handler call of this tick and
                \* the message handled, Nil when it has received nothing; under
                \* MPRSpec the node before the call of calculateMPRs

linkVars == <<input, topology, loadErr, query>>

sysVars == <<nodes, pc, cur, heap, helpers, now, cancelled, handled>>

vars == <<input, topology, loadErr, query, nodes, pc, cur, heap, helpers, now, cancelled, handled>>

\* The system variables while only the oracle is exercised.
NoSystem ==
    /\ nodes = EmptyMap
    /\ pc = EmptyMap
    /\ cur = EmptyMap
    /\ heap = EmptyMap
    /\ helpers = << >>
    /\ now = 0
    /\ cancelled = FALSE
    /\ handled = EmptyMap

\* ------------------------------------------------------------------------
\* Specification of the topology oracle alone: the input is any record
\* sequence within the bounds, the oracle is constructed from it and then
\* queried.
\* ------------------------------------------------------------------------
MaxRecords == 3

MaxLinkTick == 2

LinkPairs == {<<0, 1>>, <<1, 0>>}

LinkRecords ==
    {LinkState(t, s, p[1], p[2]) : t \in 0..MaxLinkTick, s \in {UP, DOWN}, p \in LinkPairs}

LinkInputs == UNION {[1..k -> LinkRecords] : k \in 0..MaxRecords}

QueryNodes == {0, 1, 2}

QueryTicks == 0..(MaxLinkTick + 1)

LinkInit ==
    /\ input \in LinkInputs
    /\ topology = Nil
    /\ loadErr = FALSE
    /\ query = Nil
    /\ NoSystem

Construct ==
    /\ topology = Nil
    /\ ~loadErr
    /\ LET r == NewNetworkTypology(input) IN
       /\ topology' = r.n
       /\ loadErr' = r.err
    /\ UNCHANGED <<input, query>>
    /\ UNCHANGED sysVars

DoQuery ==
    /\ topology # Nil
    /\ \E f \in QueryNodes, t \in QueryNodes, q \in QueryTicks :
         query' = [msg |-> QueryMsg(f, t, q), result |-> Query(topology, QueryMsg(f, t, q))]
    /\ UNCHANGED <<input, topology, loadErr>>
    /\ UNCHANGED sysVars

LinkNext == Construct \/ DoQuery

LinkSpec == LinkInit /\ [][LinkNext]_vars

\* ------------------------------------------------------------------------
\* The running system (controller.go, Node.run)
\*
\* Timing: the controller's tick advances when every node has finished the
\* work of its tick and every router goroutine that can run has run; a node
\* starts one tick of its own per controller tick.  The first ticker event
\* comes one tick duration after the epoch, so a node works on its tick k
\* while the controller's tick is k + 1.
\* ------------------------------------------------------------------------
RunTicks == 2
MaxTick == 3

NodeConfig(id, msg) == [id |-> id, msg |-> msg]

\* The scenarios: a topology file and a node configuration file.
Scenarios ==
    { [input   |-> << LinkState(0, UP, 0, 1), LinkState(0, UP, 1, 0),
                      LinkState(0, UP, 1, 2), LinkState(0, UP, 2, 1),
                      LinkState(0, UP, 0, 2), LinkState(0, UP, 2, 0),
                      LinkState(2, DOWN, 2, 1) >>,
       configs |-> << NodeConfig(0, NodeMsg("a", 7, 2, FALSE)),
                      NodeConfig(1, NodeMsg("b", 99, 0, FALSE)),
                      NodeConfig(2, NodeMsg("c", 99, 0, FALSE)) >>] }

\* Controller.nodes, in configuration order.
NodeOrder == <<0, 1, 2>>

NodeIDs == Range(NodeOrder)

Addr(kind, n, s) == [k |-> kind, n |-> n, s |-> s]

NoMsg == Addr("none", 0, 0)

\* The index of the first node at or after position i that the loops of
\* handleHello and handleTC do not skip, 0 when there is none.
NextIdx(src, i) ==
    LET S == {j \in i..Len(NodeOrder) : NodeOrder[j] # src} IN
    IF S = {} THEN 0 ELSE CHOOSE j \in S : \A k \in S : j <= k

\* The goroutine the router starts for a message it took from inputLink.
\* sent is the message as it was when the router took it; overtaken is the
\* set of nodes that have taken a message the router took later.
NewHelper(addr, m) ==
    [msg |-> addr, i |-> IF m.type = "DATA" THEN 1 ELSE NextIdx(m.src, 1),
     blocked |-> FALSE, target |-> 0, q |-> QueryMsg(0, 0, 0), sent |-> m,
     overtaken |-> {}]

\* out is a sequence of [addr, msg]: the transmissions of one step in order.
RECURSIVE Transmit(_, _)
Transmit(hs, out) ==
    IF out = << >> THEN hs
    ELSE Transmit(IF Head(out).msg.type # "DATA" /\ NextIdx(Head(out).msg.src, 1) = 0
                  THEN hs
                  ELSE Append(hs, NewHelper(Head(out).addr, Head(out).msg)),
                  Tail(out))

RECURSIVE Store(_, _)
Store(h, out) ==
    IF out = << >> THEN h
    ELSE Store(MapPut(h, Head(out).addr, Head(out).msg), Tail(out))

\* Messages nothing refers to any more are garbage.
Collect(h, hs, c) ==
    [a \in {x \in DOMAIN h : (\E k \in 1..Len(hs) : hs[k].msg = x) \/ (\E n \in DOMAIN c : c[n] = x)}
        |-> h[a]]

RemoveAt(q, k) == [j \in 1..(Len(q) - 1) |-> IF j < k THEN q[j] ELSE q[j + 1]]

\* The helper after the iteration for its current recipient is over.
Advance(hs, k) ==
    LET h == hs[k]
        j == IF h.sent.type = "DATA" THEN 0 ELSE NextIdx(h.sent.src, h.i + 1)
    IN IF j = 0 THEN RemoveAt(hs, k)
       ELSE [hs EXCEPT ![k] = [h EXCEPT !.i = j, !.blocked = FALSE]]

Init ==
    /\ \E sc \in Scenarios :
          /\ input = sc.input
          /\ topology = NewNetworkTypology(sc.input).n
          /\ nodes = [id \in NodeIDs |->
                        NewNode(id, sc.configs[CHOOSE i \in 1..Len(sc.configs) : sc.configs[i].id = id].msg)]
    /\ loadErr = FALSE
    /\ query = Nil
    /\ pc = [id \in NodeIDs |-> "wait"]
    /\ cur = [id \in NodeIDs |-> NoMsg]
    /\ heap = EmptyMap
    /\ helpers = << >>
    /\ now = 0
    /\ cancelled = FALSE
    /\ handled = [id \in NodeIDs |-> Nil]

Running == \A id \in DOMAIN nodes : ~nodes[id].panicked

\* The ticker of every node fires; limit caps the clock.
Tick(limit) ==
    /\ Running
    /\ \A id \in DOMAIN pc : pc[id] \in {"wait", "exited"}
    /\ \E id \in DOMAIN pc : pc[id] = "wait"
    /\ \A k \in 1..Len(helpers) : helpers[k].blocked
    /\ now < limit
    /\ now' = now + 1
    /\ pc' = [id \in DOMAIN pc |-> IF pc[id] = "wait" THEN "select" ELSE pc[id]]
    /\ UNCHANGED <<handled, linkVars, nodes, cur, heap, helpers, cancelled>>

ClockTick == Tick(MaxTick)

\* The terminator: the timer of Controller.Start(ticks) expires, ticks tick
\* durations after it was started, and the context is cancelled.
Terminate(ticks) ==
    /\ Running
    /\ ~cancelled
    /\ now = ticks
    /\ cancelled' = TRUE
    /\ UNCHANGED <<handled, linkVars, nodes, pc, cur, heap, helpers, now>>

Cancel == Terminate(RunTicks)

\* HelperStep without the oracle: the message is sent whatever the link.
HelperStepAlways(k) ==
    /\ Running
    /\ k \in 1..Len(helpers)
    /\ ~helpers[k].blocked
    /\ LET h == helpers[k]
           m == heap[h.msg]
           to == IF m.type = "DATA" THEN m.nxtHop ELSE NodeOrder[h.i]
           q == QueryMsg(IF m.type = "HELLO" THEN m.src ELSE m.fromnbr, to, now)
       IN /\ helpers' = [helpers EXCEPT ![k] = [h EXCEPT !.blocked = TRUE, !.target = to, !.q = q]]
          /\ heap' = Collect(heap, helpers', cur)
    /\ UNCHANGED <<handled, linkVars, nodes, pc, cur, now, cancelled>>

\* HelperStep with a DATA message sent to its destination, not its next hop.
HelperStepToDst(k) ==
    /\ Running
    /\ k \in 1..Len(helpers)
    /\ ~helpers[k].blocked
    /\ LET h == helpers[k]
           m == heap[h.msg]
           to == IF m.type = "DATA" THEN m.dst ELSE NodeOrder[h.i]
           q == QueryMsg(IF m.type = "HELLO" THEN m.src ELSE m.fromnbr, to, now)
       IN /\ IF Query(topology, q)
             THEN helpers' = [helpers EXCEPT ![k] = [h EXCEPT !.blocked = TRUE, !.target = to, !.q = q]]
             ELSE helpers' = Advance(helpers, k)
          /\ heap' = Collect(heap, helpers', cur)
    /\ UNCHANGED <<handled, linkVars, nodes, pc, cur, now, cancelled>>

\* One iteration of the loop of handleHello or handleTC, or the body of
\* handleData: query the oracle and, if the link is UP, send to the
\* recipient's channel, which blocks until the recipient receives.
HelperStep(k) ==
    /\ Running
    /\ k \in 1..Len(helpers)
    /\ ~helpers[k].blocked
    /\ LET h == helpers[k]
           m == heap[h.msg]
           to == IF m.type = "DATA" THEN m.nxtHop ELSE NodeOrder[h.i]
           q == QueryMsg(IF m.type = "HELLO" THEN m.src ELSE m.fromnbr, to, now)
       IN /\ IF Query(topology, q)
             THEN helpers' = [helpers EXCEPT ![k] = [h EXCEPT !.blocked = TRUE, !.target = to, !.q = q]]
             ELSE helpers' = Advance(helpers, k)
          /\ heap' = Collect(heap, helpers', cur)
    /\ UNCHANGED <<handled, linkVars, nodes, pc, cur, now, cancelled>>

\* The goroutines started before goroutine k learn that node id has taken
\* the message of goroutine k.
Overtake(hs, k, id) ==
    [j \in 1..Len(hs) |-> IF j < k THEN [hs[j] EXCEPT !.overtaken = @ \cup {id}] ELSE hs[j]]

\* The select of Node.run takes a message from the input channel: that of
\* any of the goroutines blocked in a send to it.
Receive(id, k) ==
    /\ Running
    /\ pc[id] = "select"
    /\ k \in 1..Len(helpers)
    /\ helpers[k].blocked
    /\ helpers[k].target = id
    /\ cur' = [cur EXCEPT ![id] = helpers[k].msg]
    /\ nodes' = [nodes EXCEPT ![id].inputLog = @ + 1]
    /\ helpers' = Advance(Overtake(helpers, k, id), k)
    /\ pc' = [pc EXCEPT ![id] = "handle"]
    /\ UNCHANGED <<handled, linkVars, heap, now, cancelled>>

\* The select of Node.run finds nothing to receive.
ReceiveNone(id) ==
    /\ Running
    /\ pc[id] = "select"
    /\ ~cancelled
    /\ ~\E k \in 1..Len(helpers) : helpers[k].blocked /\ helpers[k].target = id
    /\ pc' = [pc EXCEPT ![id] = "emit"]
    /\ UNCHANGED <<handled, linkVars, nodes, cur, heap, helpers, now, cancelled>>

\* The select of Node.run finds the context done and the node returns.
Exit(id) ==
    /\ Running
    /\ pc[id] = "select"
    /\ cancelled
    /\ pc' = [pc EXCEPT ![id] = "exited"]
    /\ UNCHANGED <<handled, linkVars, nodes, cur, heap, helpers, now, cancelled>>

HandleOrders(n, m) ==
    IF m.type = "HELLO" THEN Orders(DOMAIN n.twoHopNeighbors \cup {m.src}) ELSE {<< >>}

\* Node.handler on the message taken; a forwarded message is the very
\* object that was received, changed in place.
Handle(id) ==
    /\ Running
    /\ pc[id] = "handle"
    /\ \E order \in HandleOrders(nodes[id], heap[cur[id]]) :
          LET r == handler(nodes[id], heap[cur[id]], order)
              out == IF r.ok THEN <<[addr |-> cur[id], msg |-> r.msg]>> ELSE << >>
          IN /\ nodes' = [nodes EXCEPT ![id] = r.node]
             /\ helpers' = Transmit(helpers, out)
             /\ cur' = [cur EXCEPT ![id] = NoMsg]
             /\ heap' = Collect(Store(heap, out), helpers', cur')
    /\ handled' = [handled EXCEPT ![id] = [node |-> nodes[id], msg |-> heap[cur[id]]]]
    /\ pc' = [pc EXCEPT ![id] = "emit"]
    /\ UNCHANGED <<linkVars, now, cancelled>>

\* The periodic part of a tick with a TC every TCPeriod ticks whatever msSet.
emitTCAlways(n) ==
    LET r1 == IF n.currentTick % HelloPeriod = 0
              THEN LET r == sendHello(n) IN
                   [node |-> r.node, out |-> <<[addr |-> Addr("H", n.id, r.msg.seq), msg |-> r.msg]>>]
              ELSE [node |-> n, out |-> << >>]
        r2 == IF r1.node.currentTick % TCPeriod = 0
              THEN LET r == sendTC(r1.node) IN
                   [node |-> r.node,
                    out |-> Append(r1.out, [addr |-> Addr("T", n.id, r.msg.seq), msg |-> r.msg])]
              ELSE r1
        r3 == IF r2.node.currentTick = r2.node.nodeMsg.delay /\ ~r2.node.nodeMsg.sent
              THEN LET r == originateData(r2.node) IN
                   [node |-> r.node,
                    out |-> IF r.ok
                            THEN Append(r2.out, [addr |-> Addr("D", n.id, 0), msg |-> r.msg])
                            ELSE r2.out]
              ELSE r2
    IN r3

\* The periodic part of a tick: HELLO, TC and the configured DATA message.
emit(n) ==
    LET r1 == IF n.currentTick % HelloPeriod = 0
              THEN LET r == sendHello(n) IN
                   [node |-> r.node, out |-> <<[addr |-> Addr("H", n.id, r.msg.seq), msg |-> r.msg]>>]
              ELSE [node |-> n, out |-> << >>]
        r2 == IF r1.node.currentTick % TCPeriod = 0 /\ r1.node.msSet # {}
              THEN LET r == sendTC(r1.node) IN
                   [node |-> r.node,
                    out |-> Append(r1.out, [addr |-> Addr("T", n.id, r.msg.seq), msg |-> r.msg])]
              ELSE r1
        r3 == IF r2.node.currentTick = r2.node.nodeMsg.delay /\ ~r2.node.nodeMsg.sent
              THEN LET r == originateData(r2.node) IN
                   [node |-> r.node,
                    out |-> IF r.ok
                            THEN Append(r2.out, [addr |-> Addr("D", n.id, 0), msg |-> r.msg])
                            ELSE r2.out]
              ELSE r2
    IN r3

Emit(id) ==
    /\ Running
    /\ pc[id] = "emit"
    /\ LET r == emit(nodes[id]) IN
       /\ nodes' = [nodes EXCEPT ![id] = r.node]
       /\ helpers' = Transmit(helpers, r.out)
       /\ heap' = Collect(Store(heap, r.out), helpers', cur)
    /\ handled' = [handled EXCEPT ![id] = Nil]
    /\ pc' = [pc EXCEPT ![id] = "end"]
    /\ UNCHANGED <<linkVars, cur, now, cancelled>>

EndOrders(n) ==
    IF n.routesChanged
    THEN Orders(DOMAIN sweep(n).twoHopNeighbors) \X Orders(DOMAIN n.topologyTable)
    ELSE {<< << >>, << >> >>}

\* The end of a tick: expiry sweep, routing recalculation, tick increment.
End(id) ==
    /\ Running
    /\ pc[id] = "end"
    /\ \E o \in EndOrders(nodes[id]) :
          nodes' = [nodes EXCEPT ![id] = endTick(nodes[id], o[1], o[2])]
    /\ pc' = [pc EXCEPT ![id] = "wait"]
    /\ UNCHANGED <<handled, linkVars, cur, heap, helpers, now, cancelled>>

Next ==
    \/ ClockTick
    \/ Cancel
    \/ \E k \in 1..Len(helpers) : HelperStep(k)
    \/ \E id \in NodeIDs, k \in 1..Len(helpers) : Receive(id, k)
    \/ \E id \in NodeIDs : ReceiveNone(id)
    \/ \E id \in NodeIDs : Exit(id)
    \/ \E id \in NodeIDs : Handle(id)
    \/ \E id \in NodeIDs : Emit(id)
    \/ \E id \in NodeIDs : End(id)

Spec == Init /\ [][Next]_vars

\* ------------------------------------------------------------------------
\* The controller with the nodes as its environment: a node takes at most
\* one message per tick from its channel, as Node.run does, and transmits
\* what a node can transmit: a HELLO or a TC of its own, a DATA message, or
\* a received TC or DATA message forwarded in place.
\* ------------------------------------------------------------------------
MaxTransmissions == 2

RouterInputs ==
    { << LinkState(0, UP, 0, 1), LinkState(0, UP, 0, 2), LinkState(0, UP, 2, 1),
         LinkState(0, UP, 1, 0), LinkState(2, DOWN, 2, 1), LinkState(2, DOWN, 1, 0) >> }

RouterInit ==
    /\ input \in RouterInputs
    /\ topology = NewNetworkTypology(input).n
    /\ loadErr = FALSE
    /\ query = Nil
    /\ nodes = [id \in NodeIDs |-> NewNode(id, NodeMsg("m", 0, (id + 2) % 3, FALSE))]
    /\ pc = [id \in NodeIDs |-> "wait"]
    /\ cur = [id \in NodeIDs |-> NoMsg]
    /\ heap = EmptyMap
    /\ helpers = << >>
    /\ now = 0
    /\ cancelled = FALSE
    /\ handled = [id \in NodeIDs |-> Nil]

RECURSIVE SumOver(_, _)
SumOver(f, S) ==
    IF S = {} THEN 0
    ELSE LET x == CHOOSE y \in S : TRUE IN f[x] + SumOver(f, S \ {x})

\* The number of messages the nodes have handed to the router so far; the
\* environment counts a node's transmissions in its outputLog.
Transmissions == SumOver([id \in DOMAIN nodes |-> nodes[id].outputLog], DOMAIN nodes)

\* What a node may do with the message it took: keep it, or, as handleTC
\* and handleData do, change it in place and transmit it again.
EnvForwards(id, m) ==
    IF Transmissions >= MaxTransmissions THEN {}
    ELSE CASE m.type = "TC" /\ m.src # id -> {[m EXCEPT !.fromnbr = id]}
           [] m.type = "DATA" /\ m.dst # id ->
                 {[m EXCEPT !.fromnbr = id, !.nxtHop = nh] : nh \in NodeIDs \ {id}}
           [] OTHER -> {}

EnvHandle(id) ==
    /\ pc[id] = "handle"
    /\ \/ /\ helpers' = helpers
          /\ cur' = [cur EXCEPT ![id] = NoMsg]
          /\ heap' = Collect(heap, helpers', cur')
          /\ nodes' = nodes
       \/ \E m \in EnvForwards(id, heap[cur[id]]) :
             LET out == <<[addr |-> cur[id], msg |-> m]>> IN
             /\ helpers' = Transmit(helpers, out)
             /\ cur' = [cur EXCEPT ![id] = NoMsg]
             /\ heap' = Collect(Store(heap, out), helpers', cur')
             /\ nodes' = [nodes EXCEPT ![id].outputLog = @ + 1]
    /\ pc' = [pc EXCEPT ![id] = "emit"]
    /\ UNCHANGED <<handled, linkVars, now, cancelled>>

\* The messages a node may originate in a tick, with the node after it: a
\* HELLO or a TC in the ticks in which Node.run sends them, or its DATA
\* message.
EnvOriginates(n) ==
    {[node |-> n, out |-> << >>]}
    \cup (IF Transmissions < MaxTransmissions /\ n.currentTick % HelloPeriod = 0
          THEN {[node |-> [n EXCEPT !.helloSequenceNum = @ + 1, !.outputLog = @ + 1],
                 out  |-> <<[addr |-> Addr("H", n.id, n.helloSequenceNum),
                             msg  |-> HelloMessage(n.id, {}, {}, {}, n.helloSequenceNum)]>>]}
          ELSE {})
    \cup (IF Transmissions < MaxTransmissions /\ n.currentTick % TCPeriod = 0
          THEN {[node |-> [n EXCEPT !.tcSequenceNum = @ + 1, !.outputLog = @ + 1],
                 out  |-> <<[addr |-> Addr("T", n.id, n.tcSequenceNum),
                             msg  |-> TCMessage(n.id, n.id, n.tcSequenceNum, << >>)]>>]}
          ELSE {})
    \cup (IF Transmissions < MaxTransmissions /\ ~n.nodeMsg.sent
          THEN {[node |-> [n EXCEPT !.nodeMsg.sent = TRUE, !.outputLog = @ + 1],
                 out  |-> <<[addr |-> Addr("D", n.id, 0),
                             msg  |-> DataMessage(n.id, n.nodeMsg.dst, nh, n.id, n.nodeMsg.msg)]>>]
                   : nh \in NodeIDs \ {n.id}}
          ELSE {})

EnvEmit(id) ==
    /\ pc[id] = "emit"
    /\ \E r \in EnvOriginates(nodes[id]) :
          /\ nodes' = [nodes EXCEPT ![id] = [r.node EXCEPT !.currentTick = @ + 1]]
          /\ helpers' = Transmit(helpers, r.out)
          /\ heap' = Collect(Store(heap, r.out), helpers', cur)
    /\ pc' = [pc EXCEPT ![id] = "wait"]
    /\ UNCHANGED <<handled, linkVars, cur, now, cancelled>>

RouterNext ==
    \/ ClockTick
    \/ Cancel
    \/ \E k \in 1..Len(helpers) : HelperStep(k)
    \/ \E id \in NodeIDs, k \in 1..Len(helpers) : Receive(id, k)
    \/ \E id \in NodeIDs : ReceiveNone(id)
    \/ \E id \in NodeIDs : Exit(id)
    \/ \E id \in NodeIDs : EnvHandle(id)
    \/ \E id \in NodeIDs : EnvEmit(id)

RouterSpec == RouterInit /\ [][RouterNext]_vars

\* ------------------------------------------------------------------------
\* One node with the controller as its environment: at the select of a tick
\* the node finds in its channel any message the controller can deliver to
\* it, or none.  No link is UP, so what the node transmits reaches nobody.
\* ------------------------------------------------------------------------
NodeTicks == 6

MaxInputs == 3

\* The HELLO messages of neighbor 1: naming the node as heard next to a
\* neighbor 3, naming it as selected MPR, or, in its second HELLO, naming
\* nobody; and the first HELLO of neighbor 2.  The controller never
\* delivers a node's own HELLO or TC to it.
EnvHellos(id) ==
    {HelloMessage(1, l[1], l[2], l[3], seq) :
        seq \in {0, 1}, l \in {<<{id}, {3}, {}>>, <<{}, {3}, {id}>>}}
    \cup {HelloMessage(1, {}, {}, {}, 1), HelloMessage(2, {}, {}, {}, 0)}

\* TC messages of originator 3 as neighbor 1 transmits them, and one of
\* originator 4 as neighbor 2 transmits it.
EnvTCs(id) ==
    {TCMessage(3, 1, 1, <<2>>), TCMessage(3, 1, 0, <<2>>), TCMessage(3, 1, 0, <<id, 4>>),
     TCMessage(4, 2, 0, <<1>>)}

EnvData(id) == {DataMessage(1, dst, id, 1, "x") : dst \in {id, 3}}

EnvMessages(id) == EnvHellos(id) \cup EnvTCs(id) \cup EnvData(id)

NodeInit ==
    /\ input = << >>
    /\ topology = NewNetworkTypology(input).n
    /\ loadErr = FALSE
    /\ query = Nil
    /\ nodes = [id \in {0} |-> NewNode(id, NodeMsg("a", 2, 3, FALSE))]
    /\ pc = [id \in {0} |-> "wait"]
    /\ cur = [id \in {0} |-> NoMsg]
    /\ heap = EmptyMap
    /\ helpers = << >>
    /\ now = 0
    /\ cancelled = FALSE
    /\ handled = [id \in {0} |-> Nil]

NodeClockTick == Tick(NodeTicks)

NodeCancel == Terminate(NodeTicks)

\* The select of Node.run takes message m from the input channel.
EnvDeliver(id, m) ==
    /\ Running
    /\ pc[id] = "select"
    /\ nodes[id].inputLog < MaxInputs
    /\ LET a == Addr("E", id, nodes[id].inputLog) IN
       /\ cur' = [cur EXCEPT ![id] = a]
       /\ heap' = MapPut(heap, a, m)
    /\ nodes' = [nodes EXCEPT ![id].inputLog = @ + 1]
    /\ pc' = [pc EXCEPT ![id] = "handle"]
    /\ UNCHANGED <<handled, linkVars, helpers, now, cancelled>>

NodeNext ==
    \/ NodeClockTick
    \/ NodeCancel
    \/ \E k \in 1..Len(helpers) : HelperStep(k)
    \/ \E id \in DOMAIN nodes : \E m \in EnvMessages(id) : EnvDeliver(id, m)
    \/ \E id \in DOMAIN nodes : ReceiveNone(id)
    \/ \E id \in DOMAIN nodes : Exit(id)
    \/ \E id \in DOMAIN nodes : Handle(id)
    \/ \E id \in DOMAIN nodes : Emit(id)
    \/ \E id \in DOMAIN nodes : End(id)

NodeSpec == NodeInit /\ [][NodeNext]_vars

\* ------------------------------------------------------------------------
\* calculateMPRs alone, applied to any pair of neighbor tables over the same
\* neighbors, in any state the handlers and the expiry sweep can leave them.
\* ------------------------------------------------------------------------
MaxNeighbors == 3

TwoHopIDs == {2, 7}

MPRInit ==
    /\ input = << >>
    /\ topology = Nil
    /\ loadErr = FALSE
    /\ query = Nil
    /\ \E keys \in SUBSET (1..MaxNeighbors) :
       \E st \in [keys -> {Bidirectional, Unidirectional, MPR}] :
       \E th \in [keys -> SUBSET TwoHopIDs] :
          /\ \A k \in keys : k \notin th[k]
          /\ nodes = [id \in {0} |->
                        [NewNode(id, NodeMsg("a", 0, 0, FALSE)) EXCEPT
                            !.oneHopNeighbors =
                                [k \in keys |-> OneHopNeighborEntry(k, st[k], NeighborHoldTime)],
                            !.twoHopNeighbors = th]]
    /\ pc = [id \in {0} |-> "mprs"]
    /\ cur = [id \in {0} |-> NoMsg]
    /\ heap = EmptyMap
    /\ helpers = << >>
    /\ now = 0
    /\ cancelled = FALSE
    /\ handled = [id \in {0} |-> Nil]

\* The call n.oneHopNeighbors = calculateMPRs(n.oneHopNeighbors, n.twoHopNeighbors)
CalculateMPRs(id) ==
    /\ pc[id] = "mprs"
    /\ \E order \in Orders(DOMAIN nodes[id].twoHopNeighbors) :
          LET r == calculateMPRs(nodes[id].oneHopNeighbors, nodes[id].twoHopNeighbors, order) IN
          nodes' = [nodes EXCEPT ![id].oneHopNeighbors = r.oneHopNeighbors,
                                 ![id].panicked = r.panicked]
    /\ handled' = [handled EXCEPT ![id] = [node |-> nodes[id], msg |-> Nil]]
    /\ pc' = [pc EXCEPT ![id] = "done"]
    /\ UNCHANGED <<linkVars, cur, heap, helpers, now, cancelled>>

MPRNext == \E id \in DOMAIN nodes : CalculateMPRs(id)

MPRSpec == MPRInit /\ [][MPRNext]_vars

\* ------------------------------------------------------------------------
\* One node that hears its neighbors in its first ticks only and runs on
\* until what it has learnt is expired: the controller delivers a message
\* in the ticks up to DeliverUntil, once more in the tick in which the
\* first one-hop entries expire, and nothing afterwards.
\* ------------------------------------------------------------------------
ExpiryTicks == 33

DeliverUntil == 2

\* A HELLO of neighbor 1 and one that refreshes it and names the node as
\* MPR, a HELLO of neighbor 2 that names it as MPR too, and a TC of each of
\* the originators 3 and 4.
ExpiryMessages(id) ==
    {HelloMessage(1, {}, {3}, {}, 0), HelloMessage(1, {}, {3}, {id}, 1),
     HelloMessage(2, {}, {}, {id}, 0),
     TCMessage(3, 1, 0, <<2>>), TCMessage(4, 2, 0, <<1>>)}

ExpiryInit == NodeInit

ExpiryClockTick == Tick(ExpiryTicks)

ExpiryCancel == Terminate(ExpiryTicks)

ExpiryDeliver(id, m) ==
    /\ \/ nodes[id].currentTick <= DeliverUntil
       \/ nodes[id].currentTick = NeighborHoldTime
    /\ EnvDeliver(id, m)

ExpiryNext ==
    \/ ExpiryClockTick
    \/ ExpiryCancel
    \/ \E k \in 1..Len(helpers) : HelperStep(k)
    \/ \E id \in DOMAIN nodes : \E m \in ExpiryMessages(id) : ExpiryDeliver(id, m)
    \/ \E id \in DOMAIN nodes : ReceiveNone(id)
    \/ \E id \in DOMAIN nodes : Exit(id)
    \/ \E id \in DOMAIN nodes : Handle(id)
    \/ \E id \in DOMAIN nodes : Emit(id)
    \/ \E id \in DOMAIN nodes : End(id)

ExpirySpec == ExpiryInit /\ [][ExpiryNext]_vars

\* ------------------------------------------------------------------------
\* Termination: the whole system with Controller.Start(LiveTicks), under
\* the scheduling the Go runtime provides.  Every goroutine that can take a
\* step takes one, the ticker keeps firing, and the select of Node.run,
\* which chooses among its ready cases uniformly at random, does not pass
\* over the done case for ever: here it may prefer a pending message in
\* every tick but the last.
\* ------------------------------------------------------------------------
LiveTicks == 1

LiveMaxTick == 2

\* A router goroutine that returns when the context is cancelled.
RouterStopsAtCancel == ~cancelled

\* The router goroutine of Controller.Start is at its receive from
\* inputLink whenever a node sends: its loop has no exit, and all it does
\* with a message is start a goroutine for it.
RouterReceives == TRUE

LiveInit == Init

LiveClockTick == Tick(LiveMaxTick)

LiveCancel == Terminate(LiveTicks)

LiveReceive(id, k) ==
    /\ cancelled => now < LiveMaxTick
    /\ Receive(id, k)

\* A handler that forwards sends to inputLink, which blocks until the
\* router goroutine receives.
LiveHandle(id) ==
    /\ Handle(id)
    /\ Len(helpers') > Len(helpers) => RouterReceives

\* sendHello, sendTC and sendData send to inputLink as well.
LiveEmit(id) ==
    /\ Emit(id)
    /\ Len(helpers') > Len(helpers) => RouterReceives

\* The select of Node.run completes in one of its three ways.
LiveSelect(id) ==
    \/ \E k \in 1..Len(helpers) : LiveReceive(id, k)
    \/ ReceiveNone(id)
    \/ Exit(id)

LiveHelpers == \E k \in 1..Len(helpers) : HelperStep(k)

LiveNext ==
    \/ LiveClockTick
    \/ LiveCancel
    \/ LiveHelpers
    \/ \E id \in NodeIDs : LiveSelect(id)
    \/ \E id \in NodeIDs : LiveHandle(id)
    \/ \E id \in NodeIDs : LiveEmit(id)
    \/ \E id \in NodeIDs : End(id)

\* The Go scheduler runs every goroutine that can proceed and the tickers
\* keep firing: the system does not stop while a step is possible.
LiveFairness == WF_vars(LiveNext)

LiveSpec == LiveInit /\ [][LiveNext]_vars /\ LiveFairness

\* ------------------------------------------------------------------------
\* Forwarding: one node whose link to neighbor 1 is UP, so that the
\* goroutines relaying what the node transmits stay blocked in their send
\* to neighbor 1, which is part of the environment.  Neighbor 1 selects the
\* node as MPR and relays a TC of originator 3 and its own DATA message
\* for destination 3 to it, any number of times.
\* ------------------------------------------------------------------------
ForwardTicks == 5

ForwardInputs == 5

ForwardInput == << LinkState(0, UP, 0, 1) >>

ForwardMessages(id) ==
    {HelloMessage(1, {}, {3}, {id}, 0), HelloMessage(1, {}, {3}, {id}, 1),
     TCMessage(3, 1, 0, <<2>>),
     DataMessage(1, 3, id, 1, "x")}

ForwardInit ==
    /\ input = ForwardInput
    /\ topology = NewNetworkTypology(input).n
    /\ loadErr = FALSE
    /\ query = Nil
    /\ nodes = [id \in {0} |-> NewNode(id, NodeMsg("a", 99, 3, FALSE))]
    /\ pc = [id \in {0} |-> "wait"]
    /\ cur = [id \in {0} |-> NoMsg]
    /\ heap = EmptyMap
    /\ helpers = << >>
    /\ now = 0
    /\ cancelled = FALSE
    /\ handled = [id \in {0} |-> Nil]

ForwardClockTick == Tick(ForwardTicks)

ForwardCancel == Terminate(ForwardTicks)

\* The select of Node.run takes message m from the input channel.
ForwardDeliver(id, m) ==
    /\ Running
    /\ pc[id] = "select"
    /\ nodes[id].inputLog < ForwardInputs
    /\ LET a == Addr("E", id, nodes[id].inputLog) IN
       /\ cur' = [cur EXCEPT ![id] = a]
       /\ heap' = MapPut(heap, a, m)
    /\ nodes' = [nodes EXCEPT ![id].inputLog = @ + 1]
    /\ pc' = [pc EXCEPT ![id] = "handle"]
    /\ UNCHANGED <<handled, linkVars, helpers, now, cancelled>>

ForwardNext ==
    \/ ForwardClockTick
    \/ ForwardCancel
    \/ \E k \in 1..Len(helpers) : HelperStep(k)
    \/ \E id \in DOMAIN nodes : \E m \in ForwardMessages(id) : ForwardDeliver(id, m)
    \/ \E id \in DOMAIN nodes : ReceiveNone(id)
    \/ \E id \in DOMAIN nodes : Exit(id)
    \/ \E id \in DOMAIN nodes : Handle(id)
    \/ \E id \in DOMAIN nodes : Emit(id)
    \/ \E id \in DOMAIN nodes : End(id)

ForwardSpec == ForwardInit /\ [][ForwardNext]_vars

\* ------------------------------------------------------------------------
\* Properties of the controller
\* ------------------------------------------------------------------------

\* The node a message was transmitted by, as the controller reads it.
SentFrom(m) == IF m.type = "HELLO" THEN m.src ELSE m.fromnbr

\* The step sends the message of helper k to node r's channel.
Enqueues(k, r) ==
    /\ Len(helpers') = Len(helpers)
    /\ helpers'[k].blocked
    /\ helpers'[k].target = r

\* C1: for a HELLO or TC the router took from the shared channel, the
\* iteration for node R sends the message to R's channel iff R is not the
\* message's source and the link from the fromNeighbor of the message the
\* router took (the source, for a HELLO) to R is UP at the router's tick.
C1_EnqueueIffLinkUp ==
    [][\A k \in 1..Len(helpers) :
          (HelperStep(k) /\ helpers[k].sent.type \in {"HELLO", "TC"}) =>
             LET h == helpers[k]
                 R == NodeOrder[h.i]
             IN Enqueues(k, R) <=>
                   (R # h.sent.src /\ Query(topology, QueryMsg(SentFrom(h.sent), R, now)))]_vars

\* C2 as stated: when a node takes a message from its channel, the link the
\* router queried for it, from the fromNeighbor (source, for a HELLO) the
\* router read in the message to the node, is UP at the tick of the
\* reception, be it the controller's tick or the node's own.
C2_LinkUpAtReception ==
    [][\A id \in DOMAIN nodes : \A k \in 1..Len(helpers) :
          Receive(id, k) =>
             \/ Query(topology, QueryMsg(helpers[k].q.fromNode, id, now))
             \/ Query(topology, QueryMsg(helpers[k].q.fromNode, id, nodes[id].currentTick))]_vars

\* C2, amended: every message waiting in a node's channel was sent there
\* after the oracle reported the link to that node UP at the router's tick
\* of the query, a tick that is not later than the tick of the reception.
C2_LinkUpAtEnqueue ==
    \A k \in 1..Len(helpers) :
        helpers[k].blocked =>
            /\ Query(topology, helpers[k].q)
            /\ helpers[k].q.toNode = helpers[k].target
            /\ helpers[k].q.timeQuantum <= now

\* A message still waits in a node's channel at a tick at which the link it
\* was sent over is DOWN.
C2_Witness ==
    \E k \in 1..Len(helpers) :
        /\ helpers[k].blocked
        /\ helpers[k].q.timeQuantum < now
        /\ ~Query(topology, [helpers[k].q EXCEPT !.timeQuantum = now])

\* C3: the router's step for a DATA message queries the link from the
\* message's fromNeighbor to its nextHop at the router's tick; if it is UP
\* the message is sent to the nextHop's channel and to no other, otherwise
\* the message is dropped.  A DATA message in flight is not changed.
C3_DataToNextHopOnly ==
    [][\A k \in 1..Len(helpers) :
          helpers[k].sent.type = "DATA" =>
             LET m == helpers[k].sent IN
             /\ heap[helpers[k].msg] = m
             /\ helpers[k].blocked => helpers[k].target = m.nxtHop
             /\ HelperStep(k) =>
                   IF Query(topology, QueryMsg(m.fromnbr, m.nxtHop, now))
                   THEN Enqueues(k, m.nxtHop)
                   ELSE helpers' = RemoveAt(helpers, k)]_vars

\* A node has taken a DATA message addressed to it as next hop, and another
\* DATA message was dropped: nobody holds it and only one was received.
C3_Witness ==
    /\ \E id \in DOMAIN nodes :
          /\ pc[id] = "handle"
          /\ heap[cur[id]].type = "DATA"
          /\ heap[cur[id]].nxtHop = id
    /\ Cardinality({id \in DOMAIN nodes : nodes[id].nodeMsg.sent}) = 2
    /\ helpers = << >>
    /\ SumOver([id \in DOMAIN nodes |-> nodes[id].inputLog], DOMAIN nodes) = 1

\* C16: a node takes the messages the router delivers to it in the order
\* in which the router took them from the shared channel: it never takes a
\* message after it has taken one the router took later.
C16_DeliveryOrder ==
    [][\A id \in DOMAIN nodes : \A k \in 1..Len(helpers) :
          Receive(id, k) => id \notin helpers[k].overtaken]_vars

\* C17: while the router delivers a TC transmission, the fromNeighbor a
\* recipient or the router reads in the message is the one it had when it
\* was transmitted, and the link the router has queried for the recipient
\* it is sending to is the link from that fromNeighbor.
C17_NoSharedMutation ==
    \A k \in 1..Len(helpers) :
        helpers[k].sent.type = "TC" =>
            /\ heap[helpers[k].msg].fromnbr = helpers[k].sent.fromnbr
            /\ helpers[k].blocked => helpers[k].q.fromNode = helpers[k].sent.fromnbr

\* C18: the context is cancelled at the controller's tick RunTicks; a node
\* at the select of a later tick, one that began after the cancellation,
\* returns: it does not take a message from its channel, so that it handles
\* and transmits nothing any more.
C18_ExitAtNextTick ==
    [][\A id \in DOMAIN nodes :
          (cancelled /\ now > RunTicks /\ pc[id] = "select") =>
              pc'[id] \in {"select", "exited"}]_vars

\* ------------------------------------------------------------------------
\* Properties of the node engine
\* ------------------------------------------------------------------------

\* Helper k carries the HELLO its source has emitted in the tick it is
\* still working on, before the expiry sweep of that tick.
JustEmittedHello(k) ==
    LET m == helpers[k].sent IN
    /\ m.type = "HELLO"
    /\ m.src \in DOMAIN nodes
    /\ pc[m.src] = "end"
    /\ nodes[m.src].currentTick % HelloPeriod = 0
    /\ m.seq = nodes[m.src].helloSequenceNum - 1

\* C7: in a HELLO a node emits, the three lists are pairwise disjoint, none
\* holds the sender's ID, each neighbor is in exactly the list of its state
\* in the one-hop table, and together the lists are the keys of that table.
C7_HelloPartition ==
    \A k \in 1..Len(helpers) :
        JustEmittedHello(k) =>
            LET m == helpers[k].sent
                oneHop == nodes[m.src].oneHopNeighbors
            IN /\ m.unidir \cap m.bidir = {}
               /\ m.unidir \cap m.mpr = {}
               /\ m.bidir \cap m.mpr = {}
               /\ m.src \notin m.unidir \cup m.bidir \cup m.mpr
               /\ \A nb \in DOMAIN oneHop :
                     /\ nb \in m.unidir <=> oneHop[nb].state = Unidirectional
                     /\ nb \in m.bidir <=> oneHop[nb].state = Bidirectional
                     /\ nb \in m.mpr <=> oneHop[nb].state = MPR
               /\ m.unidir \cup m.bidir \cup m.mpr = DOMAIN oneHop

\* A HELLO has just been emitted that lists an MPR neighbor and a
\* unidirectional neighbor.
C7_Witness ==
    \E k \in 1..Len(helpers) :
        /\ JustEmittedHello(k)
        /\ helpers[k].sent.mpr # {}
        /\ helpers[k].sent.unidir # {}

\* Node id has just handled a message of the given type.
Handled(id, type) == handled[id] # Nil /\ handled[id].msg.type = type

\* The node had recorded for the sender of m a sequence number >= m.seq.
StaleHello(n, m) == m.src \in DOMAIN n.helloSequences /\ n.helloSequences[m.src] >= m.seq

\* C8: handling a HELLO M from S leaves the node as it was if the node had
\* recorded for S a sequence number >= M.seq; otherwise the sequence number
\* recorded for S, and for S only, becomes M.seq.
C8_HelloFilter ==
    \A id \in DOMAIN handled :
        Handled(id, "HELLO") =>
            LET b == handled[id].node
                m == handled[id].msg
            IN IF StaleHello(b, m)
               THEN nodes[id] = b
               ELSE nodes[id].helloSequences = MapPut(b.helloSequences, m.src, m.seq)

\* A node has handled a HELLO with an old sequence number which names the
\* node, from a neighbor it still holds as unidirectional.
C8_Witness ==
    \E id \in DOMAIN handled :
        /\ Handled(id, "HELLO")
        /\ StaleHello(handled[id].node, handled[id].msg)
        /\ id \in handled[id].msg.unidir
        /\ handled[id].node.oneHopNeighbors[handled[id].msg.src].state = Unidirectional

\* C9: when the topology table holds for originator O an entry of a TC
\* with a sequence number greater than that of the TC handled, whatever the
\* MS list of the TC handled, the entries of O are as they were.
C9_StaleTCIgnored ==
    \A id \in DOMAIN handled :
        Handled(id, "TC") =>
            LET b == handled[id].node
                m == handled[id].msg
            IN (/\ m.src \in DOMAIN b.topologyTable
                /\ \E d \in DOMAIN b.topologyTable[m.src] :
                      b.topologyTable[m.src][d].seq > m.seq)
               => nodes[id].topologyTable[m.src] = b.topologyTable[m.src]

\* C10: after calculateMPRs, every two-hop destination of a neighbor whose
\* state is not Unidirectional is a two-hop destination of some neighbor
\* whose state is MPR.
C10_MPRCoverage ==
    \A id \in DOMAIN nodes :
        pc[id] = "done" =>
            LET oneHop == nodes[id].oneHopNeighbors
                twoHop == nodes[id].twoHopNeighbors
            IN \A nb \in DOMAIN oneHop :
                  oneHop[nb].state # Unidirectional =>
                     \A d \in twoHop[nb] :
                        \E mp \in DOMAIN oneHop :
                           oneHop[mp].state = MPR /\ d \in twoHop[mp]

\* calculateMPRs has selected two neighbors and passed over a unidirectional
\* neighbor that has a two-hop destination.
C10_Witness ==
    \E id \in DOMAIN nodes :
        LET oneHop == nodes[id].oneHopNeighbors
            twoHop == nodes[id].twoHopNeighbors
            mprs == {nb \in DOMAIN oneHop : oneHop[nb].state = MPR}
        IN /\ pc[id] = "done"
           /\ Cardinality(mprs) >= 2
           /\ \E nb \in DOMAIN oneHop :
                 /\ oneHop[nb].state = Unidirectional
                 /\ twoHop[nb] # {}

\* The neighbors of node id that calculateMPRs considers: calculateMPRs
\* leaves a Unidirectional neighbor Unidirectional and never makes one.
CandidatesOf(id) ==
    {nb \in DOMAIN nodes[id].oneHopNeighbors :
        nodes[id].oneHopNeighbors[nb].state # Unidirectional}

MPRsOf(id) ==
    {nb \in DOMAIN nodes[id].oneHopNeighbors : nodes[id].oneHopNeighbors[nb].state = MPR}

Reach(id, nb) == nodes[id].twoHopNeighbors[nb]

ReachOfAll(id, S) == UNION {Reach(id, nb) : nb \in S}

\* A candidate whose non-empty two-hop set is strictly larger than that of
\* every other candidate and contains them all.
Dominates(id, nb) ==
    /\ Reach(id, nb) # {}
    /\ \A c \in CandidatesOf(id) \ {nb} :
          /\ Cardinality(Reach(id, c)) < Cardinality(Reach(id, nb))
          /\ Reach(id, c) \subseteq Reach(id, nb)

\* The dominating candidate alone is MPR, the other candidates Bidirectional.
DominantAlone(id) ==
    \A nb \in CandidatesOf(id) :
        Dominates(id, nb) =>
            /\ MPRsOf(id) = {nb}
            /\ \A c \in CandidatesOf(id) \ {nb} :
                  nodes[id].oneHopNeighbors[c].state = Bidirectional

DisjointPair(id, a, b) ==
    /\ a # b
    /\ Reach(id, a) # {}
    /\ Reach(id, b) # {}
    /\ Reach(id, a) \cap Reach(id, b) = {}

\* C11 as stated: after calculateMPRs, a dominating candidate is the only
\* MPR and the other candidates are Bidirectional, and any two candidates
\* with disjoint non-empty two-hop sets are both MPR.
C11_GreedyAsStated ==
    \A id \in DOMAIN nodes :
        pc[id] = "done" =>
            /\ DominantAlone(id)
            /\ \A a \in CandidatesOf(id), b \in CandidatesOf(id) :
                  DisjointPair(id, a, b) => {a, b} \subseteq MPRsOf(id)

\* C11, amended: the MPRs are candidates that reach at least as many as
\* every candidate left out, nobody is selected when nothing is to be
\* covered, and the MPRs without the last one selected do not cover
\* everything; a dominating candidate is the only MPR; two candidates with
\* disjoint non-empty two-hop sets are both MPR when every other candidate
\* reaches strictly fewer than each of them.
C11_Greedy ==
    \A id \in DOMAIN nodes :
        pc[id] = "done" =>
            LET cand == CandidatesOf(id)
                mprs == MPRsOf(id)
            IN /\ mprs \subseteq cand
               /\ \A m \in mprs, c \in cand \ mprs :
                     Cardinality(Reach(id, m)) >= Cardinality(Reach(id, c))
               /\ (mprs = {}) <=> (ReachOfAll(id, cand) = {})
               /\ mprs # {} =>
                     \E m \in mprs : ReachOfAll(id, mprs \ {m}) # ReachOfAll(id, cand)
               /\ DominantAlone(id)
               /\ \A a \in cand, b \in cand :
                     (/\ DisjointPair(id, a, b)
                      /\ \A c \in cand \ {a, b} :
                            /\ Cardinality(Reach(id, c)) < Cardinality(Reach(id, a))
                            /\ Cardinality(Reach(id, c)) < Cardinality(Reach(id, b)))
                     => {a, b} \subseteq mprs

\* calculateMPRs has selected one neighbor that reaches everything and has
\* left out two candidates with disjoint non-empty two-hop sets.
C11_Witness ==
    \E id \in DOMAIN nodes :
        /\ pc[id] = "done"
        /\ Cardinality(MPRsOf(id)) = 1
        /\ \E a \in CandidatesOf(id) \ MPRsOf(id), b \in CandidatesOf(id) \ MPRsOf(id) :
              DisjointPair(id, a, b)

\* The step is node id's call of its handler on the message it took.
Handles(id) == pc[id] = "handle" /\ pc'[id] = "emit"

\* The router goroutines started for the transmissions of the step.
Transmitted == SubSeq(helpers', Len(helpers) + 1, Len(helpers'))

\* C12: the handler call of node X on a TC transmits the message again iff
\* the fromNeighbor of the TC is in X's msSet at the call, and what it
\* transmits is the TC received with fromNeighbor = X.
C12_ForwardIffMS ==
    [][\A id \in DOMAIN nodes :
          (Handles(id) /\ heap[cur[id]].type = "TC") =>
             LET m == heap[cur[id]] IN
             IF m.fromnbr \in nodes[id].msSet
             THEN /\ Len(Transmitted) = 1
                  /\ Transmitted[1].sent = [m EXCEPT !.fromnbr = id]
                  /\ heap'[Transmitted[1].msg] = [m EXCEPT !.fromnbr = id]
             ELSE Len(helpers') = Len(helpers)]_vars

\* A node has forwarded the TC of another originator that a neighbor which
\* selected it as MPR transmitted.
C12_Witness ==
    \E id \in DOMAIN handled :
        /\ Handled(id, "TC")
        /\ pc[id] = "emit"
        /\ handled[id].msg.fromnbr \in handled[id].node.msSet
        /\ handled[id].msg.fromnbr # id
        /\ \E k \in 1..Len(helpers) :
              helpers[k].sent = [handled[id].msg EXCEPT !.fromnbr = id]

\* Every sequence number stored for the originator of m is less than m's.
NewerTC(n, m) ==
    m.src \in DOMAIN n.topologyTable =>
        \A d \in DOMAIN n.topologyTable[m.src] : n.topologyTable[m.src][d].seq < m.seq

\* C13: handling at tick t a TC of originator O with a sequence number
\* greater than every one stored for O makes topologyTable[O] the entries
\* (d, O, t + 30, seq) for the listed d other than the node itself, and
\* leaves the entries of every other originator as they were.
C13_TopologyReplaced ==
    \A id \in DOMAIN handled :
        (Handled(id, "TC") /\ NewerTC(handled[id].node, handled[id].msg)) =>
            LET b == handled[id].node
                m == handled[id].msg
            IN nodes[id].topologyTable =
                  [o \in DOMAIN b.topologyTable \cup {m.src} |->
                      IF o = m.src
                      THEN [d \in Range(m.ms) \ {id} |->
                               TopologyEntry(d, m.src, b.currentTick + TopologyHoldTime, m.seq)]
                      ELSE b.topologyTable[o]]

\* A node that held entries of two originators has handled a newer TC of
\* one of them that no longer lists a destination stored for it.
C13_Witness ==
    \E id \in DOMAIN handled :
        /\ Handled(id, "TC")
        /\ NewerTC(handled[id].node, handled[id].msg)
        /\ LET b == handled[id].node
               m == handled[id].msg
           IN /\ m.src \in DOMAIN b.topologyTable
              /\ DOMAIN b.topologyTable[m.src] \ Range(m.ms) # {}
              /\ \E o \in DOMAIN b.topologyTable \ {m.src} : DOMAIN b.topologyTable[o] # {}
              /\ b.currentTick > 0

\* The step is the end of a tick of node id in which the routing table is
\* rebuilt; the tables of the node after the step are those it was built from.
Rebuilds(id) == pc[id] = "end" /\ pc'[id] = "wait" /\ nodes[id].routesChanged

\* k is a Bidirectional or MPR one-hop neighbor of n.
Symmetric(n, k) ==
    /\ k \in DOMAIN n.oneHopNeighbors
    /\ n.oneHopNeighbors[k].state \in {Bidirectional, MPR}

\* The routing entry of n for d is justified by the tables of n.
SoundRoute(n, d) ==
    LET e == n.routingTable[d] IN
    /\ e.dst = d
    /\ \/ e.distance = 1 /\ e.nextHop = d /\ Symmetric(n, d)
       \/ /\ e.distance = 2
          /\ Symmetric(n, e.nextHop)
          /\ d \in n.twoHopNeighbors[e.nextHop]
       \/ /\ e.distance > 2
          /\ \E o \in DOMAIN n.routingTable :
                /\ n.routingTable[o].distance = e.distance - 1
                /\ n.routingTable[o].nextHop = e.nextHop
                /\ o \in DOMAIN n.topologyTable
                /\ \E k \in DOMAIN n.topologyTable[o] :
                      /\ n.topologyTable[o][k].dst = d
                      /\ n.topologyTable[o][k].originator = o

\* C14: right after a rebuild of the routing table every entry (d, next, k)
\* is a symmetric one-hop neighbor (k = 1), a two-hop destination of a
\* symmetric one-hop neighbor next (k = 2), or a destination of a topology
\* entry whose originator has a route of distance k - 1 over next (k > 2).
C14_RoutingSound ==
    [][\A id \in DOMAIN nodes :
          Rebuilds(id) => \A d \in DOMAIN nodes'[id].routingTable : SoundRoute(nodes'[id], d)]_vars

\* C15: the handler call of a node on a DATA message whose destination is
\* the node itself adds one line to the received sink, transmits nothing
\* and changes nothing else of the node.
C15_DataTerminates ==
    [][\A id \in DOMAIN nodes :
          (Handles(id) /\ heap[cur[id]].type = "DATA" /\ heap[cur[id]].dst = id) =>
             /\ nodes'[id] = [nodes[id] EXCEPT !.receivedLog = @ + 1]
             /\ helpers' = helpers]_vars

\* A node with routes has handled its second DATA message addressed to it.
C15_Witness ==
    \E id \in DOMAIN handled :
        /\ Handled(id, "DATA")
        /\ handled[id].msg.dst = id
        /\ handled[id].node.routingTable # EmptyMap
        /\ handled[id].node.receivedLog = 1
        /\ nodes[id].receivedLog = 2

\* The step is the periodic part of a tick of node id.
Emits(id) == pc[id] = "emit" /\ pc'[id] = "end"

\* The DATA messages among the transmissions of the step.
TransmittedData == SelectSeq(Transmitted, LAMBDA h : h.sent.type = "DATA")

\* Node n is in a tick in which it attempts to originate its DATA message.
Attempts(n) == n.currentTick = n.nodeMsg.delay /\ ~n.nodeMsg.sent

\* C19: the configured DATA message is originated at most once.  nodeMsg
\* changes only in the periodic part of a tick whose number is delay while
\* sent is false; without a route to the destination nothing is emitted,
\* sent stays false and delay grows by 30; with a route one DATA message
\* with source = fromNeighbor = self and the route's nextHop is emitted and
\* sent becomes true; in every other tick no DATA message is originated.
C19_OriginateOnce ==
    [][\A id \in DOMAIN nodes :
          LET n == nodes[id]
              dst == n.nodeMsg.dst
          IN /\ nodes'[id].nodeMsg # n.nodeMsg => (Emits(id) /\ Attempts(n))
             /\ Emits(id) =>
                   IF Attempts(n) /\ dst \in DOMAIN n.routingTable
                   THEN /\ Len(TransmittedData) = 1
                        /\ TransmittedData[1].sent =
                              DataMessage(id, dst, n.routingTable[dst].nextHop, id, n.nodeMsg.msg)
                        /\ nodes'[id].nodeMsg = [n.nodeMsg EXCEPT !.sent = TRUE]
                   ELSE IF Attempts(n)
                   THEN /\ TransmittedData = << >>
                        /\ nodes'[id].nodeMsg = [n.nodeMsg EXCEPT !.delay = @ + 30]
                   ELSE TransmittedData = << >>]_vars

\* A node has just originated its DATA message, in the tick of its delay.
C19_Witness ==
    \E id \in DOMAIN nodes :
        /\ pc[id] = "end"
        /\ nodes[id].nodeMsg.sent
        /\ nodes[id].currentTick = nodes[id].nodeMsg.delay
        /\ \E k \in 1..Len(helpers) :
              /\ helpers[k].sent.type = "DATA"
              /\ helpers[k].sent.src = id
              /\ helpers[k].sent.fromnbr = id

\* The step is node id's select taking a message from its channel.
Takes(id) == pc[id] = "select" /\ pc'[id] = "handle"

\* C20: every step adds to a node's out log one line per message the node
\* transmits in it, and to its in log one line if the node takes a message
\* from its channel in it and none otherwise.
C20_LogLines ==
    [][\A id \in DOMAIN nodes :
          /\ nodes'[id].outputLog =
                nodes[id].outputLog
                   + Len(SelectSeq(Transmitted, LAMBDA h : SentFrom(h.sent) = id))
          /\ nodes'[id].inputLog =
                nodes[id].inputLog + (IF Takes(id) THEN 1 ELSE 0)]_vars

\* Node id has just handled a HELLO that passed the out-of-order filter.
Accepted(id) ==
    /\ Handled(id, "HELLO")
    /\ ~StaleHello(handled[id].node, handled[id].msg)

\* The node's ID is in one of the three lists of the HELLO.
Names(m, id) == id \in m.unidir \cup m.bidir \cup m.mpr

\* The one-hop table the claim describes for node b after HELLO m, before
\* the MPR recomputation.
OneHopAfterHello(b, m) ==
    [k \in DOMAIN b.oneHopNeighbors \cup {m.src} |->
        IF k # m.src THEN b.oneHopNeighbors[k]
        ELSE OneHopNeighborEntry(m.src,
                                 IF m.src \in DOMAIN b.oneHopNeighbors /\ Names(m, b.id)
                                 THEN Bidirectional ELSE Unidirectional,
                                 b.currentTick + 15)]

\* C21: handling an accepted HELLO from S at tick t sets the holdUntil of
\* S's one-hop entry to t + 15; a new entry is Unidirectional whatever the
\* lists hold, an existing one becomes Bidirectional if one of the three
\* lists names the receiver and Unidirectional otherwise; the entries of the
\* other neighbors are as they were.  The table after the handler call is
\* the MPR recomputation of that table.
C21_OneHopUpdate ==
    \A id \in DOMAIN handled :
        Accepted(id) =>
            LET b == handled[id].node
                m == handled[id].msg
            IN /\ nodes[id].oneHopNeighbors[m.src].holdUntil = b.currentTick + 15
               /\ nodes[id].oneHopNeighbors[m.src].neighborID = m.src
               /\ (nodes[id].oneHopNeighbors[m.src].state = Unidirectional) <=>
                     ~(m.src \in DOMAIN b.oneHopNeighbors /\ Names(m, id))
               /\ \E order \in Orders(DOMAIN nodes[id].twoHopNeighbors) :
                     nodes[id].oneHopNeighbors =
                        calculateMPRs(OneHopAfterHello(b, m), nodes[id].twoHopNeighbors,
                                      order).oneHopNeighbors

\* At a tick after its first, a node holding two neighbors has handled a
\* HELLO of one of them, held as Unidirectional, that names the node.
C21_Witness ==
    \E id \in DOMAIN handled :
        /\ Accepted(id)
        /\ LET b == handled[id].node
               m == handled[id].msg
           IN /\ b.currentTick > 0
              /\ m.src \in DOMAIN b.oneHopNeighbors
              /\ b.oneHopNeighbors[m.src].state = Unidirectional
              /\ DOMAIN b.oneHopNeighbors \ {m.src} # {}
              /\ Names(m, id)
              /\ nodes[id].oneHopNeighbors[m.src].state # Unidirectional

AcceptsHello(id) ==
    /\ Handles(id)
    /\ heap[cur[id]].type = "HELLO"
    /\ ~StaleHello(nodes[id], heap[cur[id]])

C24_StaleTCDropped ==
    [][\A id \in DOMAIN nodes :
          (/\ Handles(id)
           /\ heap[cur[id]].type = "TC"
           /\ IsStaleTC(heap[cur[id]], nodes[id].topologyTable)) =>
             /\ nodes'[id].topologyTable = nodes[id].topologyTable
             /\ nodes'[id].routesChanged = nodes[id].routesChanged
             /\ helpers' = helpers]_vars

\* The step is the end of a tick of node id, which starts with the sweep.
Sweeps(id) == pc[id] = "end" /\ pc'[id] = "wait"

\* The entries of a map from keys to entries whose holdUntil is after t.
Unexpired(entries, t) ==
    [k \in {x \in DOMAIN entries : entries[x].holdUntil > t} |-> entries[k]]

\* C25: the sweep of tick t removes exactly the one-hop entries with
\* holdUntil <= t, each with its two-hop slot, and exactly the topology
\* entries with holdUntil <= t, and keeps the others as they are.  A
\* one-hop entry leaves the table in no other step, and the one a sweep
\* removes has holdUntil = t: it was written 15 ticks before, stayed
\* through the tick before and is gone after this sweep.
C25_ExpirySweep ==
    [][\A id \in DOMAIN nodes :
          LET n == nodes[id]
              t == n.currentTick
              gone == DOMAIN n.oneHopNeighbors \ DOMAIN nodes'[id].oneHopNeighbors
          IN /\ Sweeps(id) =>
                   /\ nodes'[id].oneHopNeighbors = Unexpired(n.oneHopNeighbors, t)
                   /\ nodes'[id].twoHopNeighbors =
                         [k \in DOMAIN n.twoHopNeighbors \ gone |-> n.twoHopNeighbors[k]]
                   /\ nodes'[id].topologyTable =
                         [o \in DOMAIN n.topologyTable |-> Unexpired(n.topologyTable[o], t)]
             /\ \A k \in gone : Sweeps(id) /\ n.oneHopNeighbors[k].holdUntil = t
             /\ \A k \in DOMAIN n.oneHopNeighbors :
                   n.oneHopNeighbors[k].holdUntil \in t..(t + 15)]_vars

\* After the sweep of tick 30 the neighbor heard in the first ticks is
\* gone, the entry of a TC handled at tick 0 is removed and the entry of a
\* TC handled later is kept.
C25_Witness ==
    \E id \in DOMAIN nodes :
        LET n == nodes[id] IN
        /\ pc[id] = "wait"
        /\ n.currentTick = 31
        /\ n.helloSequences # EmptyMap
        /\ n.oneHopNeighbors = EmptyMap
        /\ n.twoHopNeighbors = EmptyMap
        /\ DOMAIN n.topologyTable = {3, 4}
        /\ n.topologyTable[3] = EmptyMap
        /\ n.topologyTable[4] # EmptyMap

\* The positions of Node.run a node passes through in a tick.
TickOrder ==
    {<<"wait", "select">>, <<"select", "handle">>, <<"select", "emit">>, <<"select", "exited">>,
     <<"handle", "emit">>, <<"emit", "end">>, <<"end", "wait">>}

\* The place of a message type in the periodic part of a tick.
Rank(type) == CASE type = "HELLO" -> 1 [] type = "TC" -> 2 [] type = "DATA" -> 3

\* C26: in tick t a node emits one HELLO if t mod 5 = 0 and none otherwise,
\* and one TC of its own iff t mod 10 = 0 and msSet is non-empty after the
\* ingress step of the tick.  A tick is ingress, then the periodic part,
\* which transmits HELLO, TC and DATA in this order, then the end of the
\* tick: the routing table, rebuilt there only, is built from the tables as
\* the expiry sweep leaves them, and the tick count grows by one there only.
C26_TickSchedule ==
    [][\A id \in DOMAIN nodes :
          LET n == nodes[id]
              t == n.currentTick
              hellos == SelectSeq(Transmitted, LAMBDA h : h.sent.type = "HELLO")
              tcs == SelectSeq(Transmitted, LAMBDA h : h.sent.type = "TC" /\ h.sent.src = id)
          IN /\ pc'[id] # pc[id] => <<pc[id], pc'[id]>> \in TickOrder
             /\ IF Emits(id)
                THEN /\ Len(hellos) = (IF t % 5 = 0 THEN 1 ELSE 0)
                     /\ \A i \in 1..Len(hellos) : hellos[i].sent.src = id
                     /\ Len(tcs) = (IF t % 10 = 0 /\ n.msSet # {} THEN 1 ELSE 0)
                     /\ \A i, j \in 1..Len(Transmitted) :
                           i < j => Rank(Transmitted[i].sent.type) < Rank(Transmitted[j].sent.type)
                ELSE hellos = << >> /\ tcs = << >>
             /\ IF Sweeps(id)
                THEN /\ nodes'[id].currentTick = t + 1
                     /\ IF n.routesChanged
                        THEN \E o \in EndOrders(n) :
                                nodes'[id].routingTable =
                                   calculateRoutingTable(nodes'[id], o[1], o[2]).routingTable
                        ELSE nodes'[id].routingTable = n.routingTable
                ELSE /\ nodes'[id].currentTick = t
                     /\ nodes'[id].routingTable = n.routingTable]_vars

\* At tick 10 a node whose msSet is not empty has just transmitted its
\* third HELLO and, behind it, a TC of its own.
C26_Witness ==
    \E id \in DOMAIN nodes :
        /\ pc[id] = "end"
        /\ nodes[id].currentTick = 10
        /\ nodes[id].msSet # {}
        /\ \E k, j \in 1..Len(helpers) :
              /\ k < j
              /\ helpers[k].sent.type = "HELLO"
              /\ helpers[k].sent.src = id
              /\ helpers[k].sent.seq = 2
              /\ helpers[j].sent.type = "TC"
              /\ helpers[j].sent.src = id

\* C27: the handler call of node X on a DATA message for another node
\* transmits it once with fromNeighbor = X and the nextHop of X's routing
\* entry for the destination, source, destination and payload as received;
\* without a routing entry for the destination it transmits nothing and
\* the node is as it was.
C27_DataForward ==
    [][\A id \in DOMAIN nodes :
          (Handles(id) /\ heap[cur[id]].type = "DATA" /\ heap[cur[id]].dst # id) =>
             LET m == heap[cur[id]]
                 rt == nodes[id].routingTable
             IN IF m.dst \in DOMAIN rt
                THEN LET fwd == DataMessage(m.src, m.dst, rt[m.dst].nextHop, id, m.data) IN
                     /\ Len(Transmitted) = 1
                     /\ Transmitted[1].sent = fwd
                     /\ heap'[Transmitted[1].msg] = fwd
                ELSE /\ helpers' = helpers
                     /\ nodes'[id] = nodes[id]]_vars

\* A node has forwarded a DATA message of another source over a next hop
\* that is not the destination.
C27_Witness ==
    \E id \in DOMAIN handled :
        /\ Handled(id, "DATA")
        /\ pc[id] = "emit"
        /\ LET b == handled[id].node
               m == handled[id].msg
           IN /\ m.dst # id
              /\ m.src # id
              /\ m.dst \in DOMAIN b.routingTable
              /\ b.routingTable[m.dst].nextHop # m.dst
              /\ \E k \in 1..Len(helpers) :
                    helpers[k].sent =
                       DataMessage(m.src, m.dst, b.routingTable[m.dst].nextHop, id, m.data)

\* C28: no topology entry a node stores has the node itself as destination;
\* every entry is stored under its originator and its destination; and the
\* destinations stored for the originator of a TC that was not dropped are
\* the members of its MS list other than the receiver.
C28_NoOwnDestination ==
    \A id \in DOMAIN nodes :
        /\ \A o \in DOMAIN nodes[id].topologyTable :
              \A k \in DOMAIN nodes[id].topologyTable[o] :
                 /\ k # id
                 /\ nodes[id].topologyTable[o][k].dst = k
                 /\ nodes[id].topologyTable[o][k].originator = o
        /\ (Handled(id, "TC") /\ ~IsStaleTC(handled[id].msg, handled[id].node.topologyTable)) =>
              DOMAIN nodes[id].topologyTable[handled[id].msg.src] =
                 Range(handled[id].msg.ms) \ {id}

\* A node has stored a TC whose MS list names the node and another node.
C28_Witness ==
    \E id \in DOMAIN handled :
        /\ Handled(id, "TC")
        /\ ~IsStaleTC(handled[id].msg, handled[id].node.topologyTable)
        /\ id \in Range(handled[id].msg.ms)
        /\ DOMAIN nodes[id].topologyTable[handled[id].msg.src] # {}

Ascending(q) == \A i, j \in 1..Len(q) : i < j => q[i] < q[j]

\* C30: the HELLO a node emits in tick t, which is its (t / 5 + 1)-th,
\* carries the sequence number t / 5 and the node's HELLO counter, which
\* grows by one with it; a TC a node originates carries the node's TC
\* counter, which grows by one with it, fromNeighbor = originator = self
\* and the members of msSet in ascending order; no other step changes a
\* counter, and a TC a node forwards keeps its originator and its number.
C30_SequenceNumbers ==
    [][\A id \in DOMAIN nodes :
          LET n == nodes[id]
              hellos == SelectSeq(Transmitted, LAMBDA h : h.sent.type = "HELLO")
              tcs == SelectSeq(Transmitted, LAMBDA h : h.sent.type = "TC")
          IN /\ nodes'[id].helloSequenceNum = n.helloSequenceNum + (IF Emits(id) THEN Len(hellos) ELSE 0)
             /\ nodes'[id].tcSequenceNum = n.tcSequenceNum + (IF Emits(id) THEN Len(tcs) ELSE 0)
             /\ Emits(id) =>
                   /\ \A i \in 1..Len(hellos) :
                         /\ hellos[i].sent.seq = n.helloSequenceNum
                         /\ hellos[i].sent.seq = n.currentTick \div 5
                   /\ \A i \in 1..Len(tcs) :
                         /\ tcs[i].sent.seq = n.tcSequenceNum
                         /\ tcs[i].sent.src = id
                         /\ tcs[i].sent.fromnbr = id
                         /\ Ascending(tcs[i].sent.ms)
                         /\ Range(tcs[i].sent.ms) = n.msSet
             /\ Handles(id) =>
                   \A i \in 1..Len(tcs) :
                      /\ tcs[i].sent.seq = heap[cur[id]].seq
                      /\ tcs[i].sent.src = heap[cur[id]].src
                      /\ tcs[i].sent.src # id]_vars

\* At tick 10 a node that has forwarded a TC of another originator has
\* just emitted its third HELLO and its second TC, which lists its two
\* MPR selectors.
C30_Witness ==
    \E id \in DOMAIN nodes :
        /\ pc[id] = "end"
        /\ nodes[id].currentTick = 10
        /\ nodes[id].helloSequenceNum = 3
        /\ nodes[id].tcSequenceNum = 2
        /\ nodes[id].outputLog = 6
        /\ \E k, j \in 1..Len(helpers) :
              /\ helpers[k].sent.type = "HELLO"
              /\ helpers[k].sent.seq = 2
              /\ helpers[j].sent = TCMessage(id, id, 1, <<1, 2>>)

\* C31: a node that forwards a TC transmits the TC it took with
\* fromNeighbor = self and every other field as received, and no step
\* changes the originator, the sequence number or the MS list of a TC
\* that is in flight: they stay as first emitted over any number of hops.
C31_ForwardFrame ==
    [][/\ \A id \in DOMAIN nodes :
             (Handles(id) /\ heap[cur[id]].type = "TC") =>
                \A i \in 1..Len(Transmitted) :
                   /\ Transmitted[i].sent = [heap[cur[id]] EXCEPT !.fromnbr = id]
                   /\ Transmitted[i].msg = cur[id]
                   /\ heap'[cur[id]] = Transmitted[i].sent
       /\ \A a \in DOMAIN heap \cap DOMAIN heap' :
             heap[a].type = "TC" =>
                /\ heap'[a].type = "TC"
                /\ heap'[a].src = heap[a].src
                /\ heap'[a].seq = heap[a].seq
                /\ heap'[a].ms = heap[a].ms]_vars

\* A node that holds the topology of originator 3 has just forwarded the
\* next TC of originator 3, which it took from its MPR selector 1.
C31_Witness ==
    \E id \in DOMAIN nodes : \E k \in 1..Len(helpers) :
        /\ pc[id] = "emit"
        /\ Handled(id, "TC")
        /\ handled[id].msg = TCMessage(3, 1, 1, <<2>>)
        /\ 3 \in DOMAIN handled[id].node.topologyTable
        /\ helpers[k].sent = TCMessage(3, id, 1, <<2>>)
        /\ heap[helpers[k].msg] = helpers[k].sent

\* C32: calculateMPRs returns for every pair of tables without indexing
\* an empty candidate list: the loop pops at most every candidate once,
\* and when the last one is popped nothing remains uncovered, because the
\* uncovered set holds only what some candidate reaches.
C32_SelectionTerminates ==
    \A id \in DOMAIN nodes :
        /\ ~nodes[id].panicked
        /\ pc[id] = "done" =>
              /\ MPRsOf(id) \subseteq CandidatesOf(id)
              /\ ReachOfAll(id, MPRsOf(id)) = ReachOfAll(id, CandidatesOf(id))

\* calculateMPRs has returned after it popped every candidate there was,
\* and a Unidirectional neighbor reaches a destination no candidate reaches.
C32_Witness ==
    \E id \in DOMAIN nodes :
        /\ pc[id] = "done"
        /\ CandidatesOf(id) # {}
        /\ MPRsOf(id) = CandidatesOf(id)
        /\ \E u \in DOMAIN nodes[id].oneHopNeighbors \ CandidatesOf(id) :
              Reach(id, u) \ ReachOfAll(id, CandidatesOf(id)) # {}

\* C33: once the terminator has cancelled the context, every node task
\* returns, so that the wg.Wait of Controller.Start returns: no node
\* stays blocked in a send to inputLink, whatever messages are in flight.
C33_NodesReturn == cancelled ~> (\A id \in DOMAIN nodes : pc[id] = "exited")

\* Every node task has returned, one of them after it took a message, and
\* a goroutine of the router is still blocked in its send to a node.
C33_Witness ==
    /\ cancelled
    /\ \A id \in DOMAIN nodes : pc[id] = "exited"
    /\ \E id \in DOMAIN nodes : nodes[id].inputLog > 0
    /\ \E k \in 1..Len(helpers) : helpers[k].blocked

\* C34: in every state the two-hop table and the one-hop table of a node
\* have the same keys, and the tables handleHello hands to calculateMPRs
\* have the same keys as well: no slot is evaluated for a neighbor without
\* a one-hop entry.
C34_SameKeys ==
    \A id \in DOMAIN nodes :
        /\ DOMAIN nodes[id].twoHopNeighbors = DOMAIN nodes[id].oneHopNeighbors
        /\ Accepted(id) =>
              LET b == handled[id].node
                  m == handled[id].msg
              IN DOMAIN updateTwoHopNeighbors(m, b.twoHopNeighbors, b.id)
                    = DOMAIN updateOneHopNeighbors(m, b.oneHopNeighbors,
                                                   b.currentTick + b.neighborHoldTime, b.id)

\* The sweep has removed neighbor 1 from both tables and left neighbor 2,
\* whose HELLO came later, in both.
C34_Witness ==
    \E id \in DOMAIN nodes :
        /\ pc[id] = "wait"
        /\ 1 \in DOMAIN nodes[id].helloSequences
        /\ DOMAIN nodes[id].oneHopNeighbors = {2}
        /\ DOMAIN nodes[id].twoHopNeighbors = {2}

\* C35: at the end of every tick every member of a node's msSet is a key
\* of its one-hop table, so that the node neither advertises nor forwards
\* for a selector that has expired.
C35_SelectorsAreNeighbors ==
    \A id \in DOMAIN nodes :
        pc[id] = "wait" => nodes[id].msSet \subseteq DOMAIN nodes[id].oneHopNeighbors

\* C36: at the end of every tick the nextHop of every routing entry of a
\* node is a key of its one-hop table: once the sweep has removed a
\* neighbor, no route leads to it or through it.
C36_RoutesThroughNeighbors ==
    \A id \in DOMAIN nodes :
        pc[id] = "wait" =>
           \A d \in DOMAIN nodes[id].routingTable :
              nodes[id].routingTable[d].nextHop \in DOMAIN nodes[id].oneHopNeighbors

\* The relaying goroutines that carry a message of the given type that
\* node id forwarded for another originator.
ForwardedBy(id, type) ==
    {k \in 1..Len(helpers) :
        /\ helpers[k].sent.type = type
        /\ helpers[k].sent.fromnbr = id
        /\ helpers[k].sent.src # id}

\* C37: a node forwards a TC of a given originator and sequence number at
\* most once, so that two nodes that selected each other as MPR do not
\* pass the same TC back and forth.
C37_TCForwardedOnce ==
    \A id \in DOMAIN nodes : \A k, j \in ForwardedBy(id, "TC") :
        (/\ helpers[k].sent.src = helpers[j].sent.src
         /\ helpers[k].sent.seq = helpers[j].sent.seq) => k = j

\* C38: a node forwards a DATA message at most once: forwarding follows
\* no loop.
C38_DataForwardedOnce ==
    \A id \in DOMAIN nodes : \A k, j \in ForwardedBy(id, "DATA") :
        (/\ helpers[k].sent.src = helpers[j].sent.src
         /\ helpers[k].sent.dst = helpers[j].sent.dst
         /\ helpers[k].sent.data = helpers[j].sent.data) => k = j

\* What the first i - 1 neighbors of the list seq reach.
CoveredBefore(id, seq, i) == ReachOfAll(id, {seq[j] : j \in 1..(i - 1)})

\* C39 as stated: the MPRs of a node can be listed in the order of their
\* selection, and each of them reaches a destination that none selected
\* before it reaches.
C39_NoRedundantMPR ==
    \A id \in DOMAIN nodes :
        pc[id] = "done" =>
           \E seq \in Orders(MPRsOf(id)) :
              \A i \in 1..Len(seq) : Reach(id, seq[i]) \ CoveredBefore(id, seq, i) # {}

\* C39 as the code has it: the MPRs, listed in the order of their
\* selection, reach ever fewer destinations and at least as many as any
\* candidate left out; before each selection some destination of a
\* candidate is still uncovered, the last MPR selected covers one that
\* was, and together they cover every destination of a candidate.
C39_SelectedWhileUncovered ==
    \A id \in DOMAIN nodes :
        pc[id] = "done" =>
           \E seq \in Orders(MPRsOf(id)) :
              LET all == ReachOfAll(id, CandidatesOf(id)) IN
              /\ \A i \in 1..Len(seq) : CoveredBefore(id, seq, i) # all
              /\ \A i, j \in 1..Len(seq) :
                    i < j => Cardinality(Reach(id, seq[i])) >= Cardinality(Reach(id, seq[j]))
              /\ \A c \in CandidatesOf(id) \ MPRsOf(id) : \A m \in MPRsOf(id) :
                    Cardinality(Reach(id, c)) <= Cardinality(Reach(id, m))
              /\ seq # << >> =>
                    Reach(id, seq[Len(seq)]) \ CoveredBefore(id, seq, Len(seq)) # {}
              /\ CoveredBefore(id, seq, Len(seq) + 1) = all

\* Three neighbors are MPR, and two of them reach the same destinations.
C39_Witness ==
    \E id \in DOMAIN nodes :
        /\ pc[id] = "done"
        /\ Cardinality(MPRsOf(id)) = 3
        /\ \E a, b \in MPRsOf(id) : a # b /\ Reach(id, a) = Reach(id, b)

\* ------------------------------------------------------------------------
\* Properties of the topology oracle
\* ------------------------------------------------------------------------
Constructed == topology # Nil \/ loadErr

\* The records of the input for the ordered pair (f, t), in input order.
RecordsOf(in, f, t) == SelectSeq(in, LAMBDA ls : ls.fromNode = f /\ ls.toNode = t)

SortedByTick(states) ==
    \A i \in 1..Len(states), j \in 1..Len(states) : i < j => states[i].time <= states[j].time

\* The status of the last record of the list whose tick is at most t.
LastRecordUp(states, t) ==
    LET S == {i \in 1..Len(states) : states[i].time <= t} IN
    /\ S # {}
    /\ states[CHOOSE i \in S : \A j \in S : j <= i].status = UP

HasLink(n, f, t) == f \in DOMAIN n.links /\ t \in DOMAIN n.links[f]

\* C4: for every link with a tick-sorted state list and every tick t,
\* isUp(t) is the status of the last record with tick <= t, and false when
\* there is none; a record counts from its own tick on.
C4_isUpLastRecord ==
    topology # Nil =>
        \A f \in QueryNodes, t \in QueryNodes :
            HasLink(topology, f, t) /\ SortedByTick(topology.links[f][t].states) =>
                \A q \in QueryTicks :
                    isUp(topology.links[f][t], q) = LastRecordUp(topology.links[f][t].states, q)

\* A link that went UP and later DOWN, up at the very tick of its UP record.
C4_Witness ==
    /\ topology # Nil
    /\ HasLink(topology, 0, 1)
    /\ LET l == topology.links[0][1] IN
       /\ Len(l.states) = 2
       /\ l.states[1] = LinkState(1, UP, 0, 1)
       /\ l.states[2] = LinkState(2, DOWN, 0, 1)
       /\ isUp(l, 1) /\ ~isUp(l, 0) /\ ~isUp(l, 2)

\* C5: a query for an ordered pair without records is false at every tick,
\* and the answer for (from, to) is the one the oracle built from the
\* records of that ordered pair alone gives: the records of the reverse
\* direction do not change it.
C5_QueryOwnPairOnly ==
    (topology # Nil /\ query # Nil) =>
        LET own == RecordsOf(input, query.msg.fromNode, query.msg.toNode) IN
        /\ own = << >> => query.result = FALSE
        /\ query.result = Query(NewNetworkTypology(own).n, query.msg)

\* A query for (1, 0), which has no record, while (0, 1) is UP at that tick.
C5_Witness ==
    /\ topology # Nil
    /\ query # Nil
    /\ query.msg.fromNode = 1 /\ query.msg.toNode = 0
    /\ RecordsOf(input, 1, 0) = << >>
    /\ Query(topology, QueryMsg(0, 1, query.msg.timeQuantum))
    /\ query.result = FALSE

HasDescent(in) == \E i \in 1..Len(in), j \in 1..Len(in) : i < j /\ in[j].time < in[i].time

\* C6: construction from a record sequence in which a tick is smaller than
\* that of a preceding record fails and returns no topology; a sequence of
\* non-decreasing ticks is accepted and every link holds exactly its records
\* in input order.
C6_Construction ==
    Constructed =>
        IF HasDescent(input)
        THEN loadErr /\ topology = Nil
        ELSE /\ ~loadErr
             /\ topology # Nil
             /\ \A f \in QueryNodes, t \in QueryNodes :
                   LET own == RecordsOf(input, f, t) IN
                   IF own = << >> THEN ~HasLink(topology, f, t)
                   ELSE HasLink(topology, f, t) /\ topology.links[f][t].states = own

\* A rejected input whose first records were acceptable.
C6_Witness ==
    /\ loadErr
    /\ topology = Nil
    /\ Len(input) = 3
    /\ input[1].time <= input[2].time
    /\ input[3].time < input[2].time

====
